---------------------------- MODULE Spec2Model ----------------------------
(***************************************************************************)
(* A model of pytket-braket's gate-dialect translator                       *)
(* (pytket/extensions/braket/braket_convert.py): the angle normalizer,      *)
(* tk_to_braket and braket_to_tk.                                           *)
(*                                                                          *)
(* Angles.  A pytket parameter is an angle in half-turns.  The model keeps  *)
(* it as an integer number of 1/HalfTurn half-turns (exact fixed point;     *)
(* floating-point rounding is not modelled).  A braket angle is in radians: *)
(* half-turns * pi.  pi is modelled by the rational PiNum/PiDen, and a      *)
(* radian value is kept as an integer number of 1/(HalfTurn*PiDen) radians, *)
(* so that "* pi" and "/ pi" are real conversions and not the identity.     *)
(***************************************************************************)
EXTENDS Integers, Sequences, FiniteSets, TLC

\* Fixed-point resolution: an angle unit is 1/(4 * Res) half-turns, so that the
\* quarter half-turn of add_phase(0.25) is a whole number of units.
Res == 1
HalfTurn == 4 * Res
\* Qubits and bits of the client's circuit, Circuit(NQubits, NBits).
NQubits == 3
NBits == 2
\* Largest number of commands the client adds to a circuit.
MaxCmds == 2
\* Largest |n| handed to the normalizer, in half-turns.
MaxTurns == 8
\* Largest |k| of the period shifts n + 4k.
MaxShift == 2
\* pi as a rational (numpy.pi), PiNum / PiDen.
PiNum == 355
PiDen == 113

\* A result not yet returned is the empty sequence, a returned value v is <<v>>.
None == << >>
Returned(r) == r # None
Value(r) == r[1]

VARIABLES
    pc,      \* position of the client: which call comes next
    angle,   \* the normalizer's inputs [n, k]
    norm,    \* the normalizer's outputs [first, again, shifted]
    tkcirc,  \* the client's pytket circuit
    call,    \* the arguments of the client's tk_to_braket call
    fwd,     \* what tk_to_braket delivered to the client
    bkcirc,  \* the braket circuit the client hands to braket_to_tk
    rev,     \* what braket_to_tk delivered to the client
    thread,  \* the translator calls in progress, one per thread
    heap,    \* the objects those calls have constructed
    backend, \* the BraketBackend: how it was constructed, and its _cache
    device,  \* the tasks of the braket device
    client   \* the backend's client: its handles and what its calls delivered

vars == <<pc, angle, norm, tkcirc, call, fwd, bkcirc, rev, thread, heap,
          backend, device, client>>
convVars == <<tkcirc, call, fwd, bkcirc, rev>>
normVars == <<angle, norm>>
threadVars == <<thread, heap>>
backendVars == <<backend, device, client>>

-----------------------------------------------------------------------------
(* _normalize_angle: n0 = n % 4 (Python's %, the sign of the divisor, so    *)
(* in [0,4)); if n0 > 2 then n0 - 4.                                        *)
normalize_no_fold(n) ==
    n % (4 * HalfTurn)

normalize_no_mod(n) ==
    IF n > 2 * HalfTurn THEN n - 4 * HalfTurn ELSE n

normalize_fmod(n) ==
    LET n0 == IF n >= 0 THEN n % (4 * HalfTurn)
                        ELSE 0 - ((0 - n) % (4 * HalfTurn))
    IN  IF n0 > 2 * HalfTurn THEN n0 - 4 * HalfTurn ELSE n0

_normalize_angle(n) ==
    LET n0 == n % (4 * HalfTurn)
    IN  IF n0 > 2 * HalfTurn THEN n0 - 4 * HalfTurn ELSE n0

-----------------------------------------------------------------------------
(* Data.                                                                    *)
(* A pytket circuit: [qubits, bits, cmds, wire_swaps, phase].  qubits is    *)
(* the sorted list of the labels i of the declared qubits q[i]; bits the    *)
(* list of the declared bits c[j]; cmds what get_commands() returns;        *)
(* wire_swaps the implicit wire swaps (pairs of qubit labels, none for an   *)
(* identity permutation); phase the global phase in angle units.            *)
(* A command: [op, params, qubits, bits].                                   *)
(* A braket circuit: [instructions], each [name, target, angles].           *)
Cmd(op, params, qubits, bits) ==
    [op |-> op, params |-> params, qubits |-> qubits, bits |-> bits]

Instr(name, target, angles) ==
    [name |-> name, target |-> target, angles |-> angles]

\* x * pi and x / pi (half-turns to radians and back).
TimesPi(h) == h * PiNum
OverPiForgotten(r) == r \div PiDen
OverPi(r) == r \div PiNum

\* list.index(x), zero-based.
index(list, x) == (CHOOSE i \in 1..Len(list) : list[i] = x) - 1

RECURSIVE SortedSeq(_)
SortedSeq(S) ==
    IF S = {} THEN << >>
    ELSE LET m == CHOOSE x \in S : \A y \in S : x <= y
         IN  <<m>> \o SortedSeq(S \ {m})

\* Circuit.n_gates_of_type
n_gates_of_type(c, optype) ==
    Cardinality({i \in 1..Len(c.cmds) : c.cmds[i].op = optype})

\* Circuit.replace_implicit_wire_swaps: every implicit wire swap becomes a SWAP
\* gate at the end of the circuit.
replace_implicit_wire_swaps(c) ==
    [c EXCEPT
       !.cmds = c.cmds \o [i \in 1..Len(c.wire_swaps) |->
                              Cmd("SWAP", << >>, c.wire_swaps[i], << >>)],
       !.wire_swaps = << >>]

\* braket Circuit.i(targets): one I instruction per target qubit.
bk_i(targets) == [i \in 1..Len(targets) |-> Instr("I", <<targets[i]>>, << >>)]

-----------------------------------------------------------------------------
(* tk_to_braket.                                                            *)

\* lines 59-61: the working copy.
working_copy_unconditional(c) == replace_implicit_wire_swaps(c)
working_copy(c) ==
    IF n_gates_of_type(c, "Measure") = 0
    THEN replace_implicit_wire_swaps(c)
    ELSE c

\* line 59: tkcirc1 = tkcirc.copy().  Every later statement works on tkcirc1,
\* so the circuit the caller holds after the call is the one it passed.
caller_circuit_no_copy(c) == working_copy(c)
caller_circuit(c) == c

\* lines 63-66
target_qubits_of_used(tkcirc1, mapped_qubits) ==
    LET used == UNION {{tkcirc1.cmds[i].qubits[j] :
                          j \in 1..Len(tkcirc1.cmds[i].qubits)} :
                       i \in 1..Len(tkcirc1.cmds)}
        all == [i \in 1..Len(tkcirc1.qubits) |->
                   [qb |-> tkcirc1.qubits[i],
                    bkq |-> IF mapped_qubits THEN tkcirc1.qubits[i] ELSE i - 1]]
        kept == SelectSeq(all, LAMBDA e : e.qb \in used)
    IN  [i \in 1..Len(kept) |-> kept[i].bkq]
target_qubits_of(tkcirc1, mapped_qubits) ==
    [i \in 1..Len(tkcirc1.qubits) |->
        IF mapped_qubits THEN tkcirc1.qubits[i] ELSE i - 1]

\* lines 69-72
padding_forced_only(target_qubits, forced_qubits, force_ops_on_target_qubits) ==
    IF forced_qubits # None THEN bk_i(forced_qubits) ELSE << >>
padding(target_qubits, forced_qubits, force_ops_on_target_qubits) ==
    (IF force_ops_on_target_qubits THEN bk_i(target_qubits) ELSE << >>)
    \o (IF forced_qubits # None THEN bk_i(forced_qubits) ELSE << >>)

\* lines 75-78
qbs_of_position(tkcirc1, mapped_qubits, cmd) ==
    [i \in 1..Len(cmd.qubits) |-> index(tkcirc1.qubits, cmd.qubits[i])]
qbs_of(tkcirc1, mapped_qubits, cmd) ==
    [i \in 1..Len(cmd.qubits) |->
        IF mapped_qubits THEN cmd.qubits[i]
        ELSE index(tkcirc1.qubits, cmd.qubits[i])]

\* line 79
cbs_of(tkcirc1, cmd) ==
    [i \in 1..Len(cmd.bits) |-> index(tkcirc1.bits, cmd.bits[i])]

\* lines 82-83
is_dropped_never(optype) == FALSE
is_dropped_boxes(optype) ==
    optype \in {"Barrier", "Unitary1qBox", "Unitary2qBox", "Unitary3qBox"}
is_dropped(optype) == optype = "Barrier"

\* The gate kinds of the if-chain, lines 85-161, by the shape of their branch.
FixedGates ==
    [CCX |-> "CCNot", CX |-> "CNot", CSWAP |-> "CSwap", CY |-> "CY",
     CZ |-> "CZ", H |-> "H", ISWAPMax |-> "ISwap", S |-> "S", Sdg |-> "Si",
     SWAP |-> "Swap", T |-> "T", Tdg |-> "Ti", V |-> "V", Vdg |-> "Vi",
     X |-> "X", Y |-> "Y", Z |-> "Z"]
DirectGates ==
    [CU1 |-> "CPhaseShift", U1 |-> "PhaseShift", Ry |-> "Ry", XXPhase |-> "XX",
     ISWAP |-> "XY", YYPhase |-> "YY"]
NormalizedGates ==
    [Rx |-> "Rx", Rz |-> "Rz", ZZPhase |-> "ZZ", GPI |-> "GPi", GPI2 |-> "GPi2"]

\* lines 85-161: the instructions one gate adds to bkcirc.
gate_instrs_all_normalized(optype, qbs, params) ==
    CASE optype \in DOMAIN FixedGates ->
            <<Instr(FixedGates[optype], qbs, << >>)>>
      [] optype \in DOMAIN DirectGates ->
            <<Instr(DirectGates[optype], qbs,
                    <<TimesPi(_normalize_angle(params[1]))>>)>>
      [] optype \in DOMAIN NormalizedGates ->
            <<Instr(NormalizedGates[optype], qbs,
                    <<TimesPi(_normalize_angle(params[1]))>>)>>
      [] optype = "noop" -> << >>
      [] optype = "AAMS" ->
            <<Instr("MS", qbs, <<TimesPi(_normalize_angle(params[2])),
                                 TimesPi(_normalize_angle(params[3])),
                                 TimesPi(_normalize_angle(params[1]))>>)>>
      [] optype = "PhasedX" ->
            <<Instr("PRx", qbs, <<TimesPi(_normalize_angle(params[1])),
                                  TimesPi(_normalize_angle(params[2]))>>)>>
gate_instrs_ms_in_order(optype, qbs, params) ==
    CASE optype \in DOMAIN FixedGates ->
            <<Instr(FixedGates[optype], qbs, << >>)>>
      [] optype \in DOMAIN DirectGates ->
            <<Instr(DirectGates[optype], qbs, <<TimesPi(params[1])>>)>>
      [] optype \in DOMAIN NormalizedGates ->
            <<Instr(NormalizedGates[optype], qbs,
                    <<TimesPi(_normalize_angle(params[1]))>>)>>
      [] optype = "noop" -> << >>
      [] optype = "AAMS" ->
            <<Instr("MS", qbs, <<TimesPi(_normalize_angle(params[1])),
                                 TimesPi(_normalize_angle(params[2])),
                                 TimesPi(_normalize_angle(params[3]))>>)>>
      [] optype = "PhasedX" ->
            <<Instr("PRx", qbs, <<TimesPi(_normalize_angle(params[1])),
                                  TimesPi(_normalize_angle(params[2]))>>)>>
gate_instrs(optype, qbs, params) ==
    CASE optype \in DOMAIN FixedGates ->
            <<Instr(FixedGates[optype], qbs, << >>)>>
      [] optype \in DOMAIN DirectGates ->
            <<Instr(DirectGates[optype], qbs, <<TimesPi(params[1])>>)>>
      [] optype \in DOMAIN NormalizedGates ->
            <<Instr(NormalizedGates[optype], qbs,
                    <<TimesPi(_normalize_angle(params[1]))>>)>>
      [] optype = "noop" -> << >>
      [] optype = "AAMS" ->
            <<Instr("MS", qbs, <<TimesPi(_normalize_angle(params[2])),
                                 TimesPi(_normalize_angle(params[3])),
                                 TimesPi(_normalize_angle(params[1]))>>)>>
      [] optype = "PhasedX" ->
            <<Instr("PRx", qbs, <<TimesPi(_normalize_angle(params[1])),
                                  TimesPi(_normalize_angle(params[2]))>>)>>

\* The gate kinds with a branch of their own in lines 85-161.
ForwardGates_no_noop ==
    DOMAIN FixedGates \cup DOMAIN DirectGates \cup DOMAIN NormalizedGates
      \cup {"AAMS", "PhasedX"}
ForwardGates ==
    DOMAIN FixedGates \cup DOMAIN DirectGates \cup DOMAIN NormalizedGates
      \cup {"noop", "AAMS", "PhasedX"}

\* line 164: measures[qbs[0]] = cbs[0]
record_measure_swapped(measures, qbs, cbs) ==
    [q \in DOMAIN measures \cup {cbs[1]} |->
        IF q = cbs[1] THEN qbs[1] ELSE measures[q]]
record_measure(measures, qbs, cbs) ==
    [q \in DOMAIN measures \cup {qbs[1]} |->
        IF q = qbs[1] THEN cbs[1] ELSE measures[q]]

\* lines 74-166: one pass of the loop over a command.  The loop's state is
\* [raised, instructions, measures]; once NotImplementedError is raised no later
\* command is looked at.
loop_body(st, tkcirc1, mapped_qubits, cmd) ==
    LET qbs == qbs_of(tkcirc1, mapped_qubits, cmd)
        cbs == cbs_of(tkcirc1, cmd)
        optype == cmd.op
    IN  IF st.raised \/ is_dropped(optype) THEN st
        ELSE IF optype \in ForwardGates
        THEN [st EXCEPT !.instructions =
                           @ \o gate_instrs(optype, qbs, cmd.params)]
        ELSE IF optype = "Measure"
        THEN [st EXCEPT !.measures = record_measure(@, qbs, cbs)]
        ELSE [st EXCEPT !.raised = TRUE]

RECURSIVE loop(_, _, _, _)
loop(st, tkcirc1, mapped_qubits, cmds) ==
    IF cmds = << >> THEN st
    ELSE loop(loop_body(st, tkcirc1, mapped_qubits, Head(cmds)),
              tkcirc1, mapped_qubits, Tail(cmds))

\* What a call delivers to its caller: the exception raised and no value, or
\* the value returned.
Raise(what) == [status |-> what, value |-> None]
Return(v) == [status |-> "ok", value |-> <<v>>]

\* lines 165-167: raise NotImplementedError, or return the tuple.
deliver_partial(st, target_qubits) ==
    [status |-> IF st.raised THEN "NotImplementedError" ELSE "ok",
     value |-> <<[bkcirc |-> [instructions |-> st.instructions],
                  target_qubits |-> target_qubits,
                  measures |-> st.measures]>>]
deliver(st, target_qubits) ==
    IF st.raised THEN Raise("NotImplementedError")
    ELSE Return([bkcirc |-> [instructions |-> st.instructions],
                 target_qubits |-> target_qubits,
                 measures |-> st.measures])

tk_to_braket(c, mapped_qubits, forced_qubits, force_ops_on_target_qubits) ==
    LET tkcirc1 == working_copy(c)
        target_qubits == target_qubits_of(tkcirc1, mapped_qubits)
        st0 == [raised |-> FALSE,
                instructions |-> padding(target_qubits, forced_qubits,
                                         force_ops_on_target_qubits),
                measures |-> << >>]
    IN  deliver(loop(st0, tkcirc1, mapped_qubits, tkcirc1.cmds), target_qubits)

-----------------------------------------------------------------------------
(* braket_to_tk.                                                            *)

\* braket Circuit.qubits: the qubits the instructions refer to.
bk_qubits_dense(bk) ==
    LET used == UNION {{bk.instructions[i].target[j] :
                          j \in 1..Len(bk.instructions[i].target)} :
                       i \in 1..Len(bk.instructions)}
    IN  {q \in 0..NQubits : \E u \in used : q <= u}
bk_qubits(bk) ==
    UNION {{bk.instructions[i].target[j] :
              j \in 1..Len(bk.instructions[i].target)} :
           i \in 1..Len(bk.instructions)}

\* The instruction names of the if-chain, lines 185-242, by the shape of their
\* branch: no angle, one angle, and PRx.
ReverseFixed ==
    [CCNot |-> "CCX", CNot |-> "CX", CSwap |-> "CSWAP", CY |-> "CY",
     CZ |-> "CZ", H |-> "H", ISwap |-> "ISWAPMax", S |-> "S", Si |-> "Sdg",
     Swap |-> "SWAP", T |-> "T", Ti |-> "Tdg", V |-> "V", Vi |-> "Vdg",
     X |-> "X", Y |-> "Y", Z |-> "Z"]
ReverseAngle ==
    [CPhaseShift |-> "CU1", PhaseShift |-> "U1", Rx |-> "Rx", Ry |-> "Ry",
     Rz |-> "Rz", XX |-> "XXPhase", XY |-> "ISWAP", YY |-> "YYPhase",
     ZZ |-> "ZZPhase"]
ReverseNames ==
    DOMAIN ReverseFixed \cup DOMAIN ReverseAngle \cup {"I", "PRx"}

\* lines 185-242: the commands one instruction adds with add_gate.
instr_cmds_i_noop(instr, qbs) ==
    LET opname == instr.name
    IN  CASE opname \in DOMAIN ReverseFixed ->
                <<Cmd(ReverseFixed[opname], << >>, qbs, << >>)>>
          [] opname \in DOMAIN ReverseAngle ->
                <<Cmd(ReverseAngle[opname], <<OverPi(instr.angles[1])>>,
                      qbs, << >>)>>
          [] opname = "I" -> <<Cmd("noop", << >>, qbs, << >>)>>
          [] opname = "PRx" ->
                <<Cmd("PhasedX", <<OverPi(instr.angles[1]),
                                   OverPi(instr.angles[2])>>, qbs, << >>)>>
instr_cmds(instr, qbs) ==
    LET opname == instr.name
    IN  CASE opname \in DOMAIN ReverseFixed ->
                <<Cmd(ReverseFixed[opname], << >>, qbs, << >>)>>
          [] opname \in DOMAIN ReverseAngle ->
                <<Cmd(ReverseAngle[opname], <<OverPi(instr.angles[1])>>,
                      qbs, << >>)>>
          [] opname = "I" -> << >>
          [] opname = "PRx" ->
                <<Cmd("PhasedX", <<OverPi(instr.angles[1]),
                                   OverPi(instr.angles[2])>>, qbs, << >>)>>

\* lines 225 and 228: add_phase(0.25) after V, add_phase(-0.25) after Vi.
instr_phase_same_sign(opname) ==
    IF opname \in {"V", "Vi"} THEN HalfTurn \div 4 ELSE 0
instr_phase(opname) ==
    CASE opname = "V" -> HalfTurn \div 4
      [] opname = "Vi" -> 0 - (HalfTurn \div 4)
      [] OTHER -> 0

\* lines 181-256: one pass of the loop over an instruction.  The loop's state is
\* [raised, tkcirc].
rev_loop_body(st, instr) ==
    LET qbs == instr.target
        opname == instr.name
    IN  IF st.raised THEN st
        ELSE IF opname \in ReverseNames
        THEN [st EXCEPT
                !.tkcirc.cmds = @ \o instr_cmds(instr, qbs),
                !.tkcirc.phase = @ + instr_phase(opname)]
        ELSE [st EXCEPT !.raised = TRUE]

RECURSIVE rev_loop(_, _)
rev_loop(st, instrs) ==
    IF instrs = << >> THEN st
    ELSE rev_loop(rev_loop_body(st, Head(instrs)), Tail(instrs))

\* lines 256-257: raise NotImplementedError, or return tkcirc.
rev_deliver_partial(st) ==
    [status |-> IF st.raised THEN "NotImplementedError" ELSE "ok",
     value |-> <<st.tkcirc>>]
rev_deliver(st) ==
    IF st.raised THEN Raise("NotImplementedError") ELSE Return(st.tkcirc)

braket_to_tk(bk) ==
    LET c0 == [qubits |-> SortedSeq(bk_qubits(bk)), bits |-> << >>,
               cmds |-> << >>, wire_swaps |-> << >>, phase |-> 0]
        st == rev_loop([raised |-> FALSE, tkcirc |-> c0], bk.instructions)
    IN  rev_deliver(st)

-----------------------------------------------------------------------------
(* The normalizer on its own: a client holds n and k, and calls             *)
(* _normalize_angle(n), _normalize_angle(n + 4k), and _normalize_angle on   *)
(* the first call's result.                                                 *)
AngleInputs == (0 - MaxTurns * HalfTurn) .. (MaxTurns * HalfTurn)
Shifts == (0 - MaxShift) .. MaxShift

InitNorm ==
    /\ pc = "norm"
    /\ angle \in [n : AngleInputs, k : Shifts]
    /\ norm = [first |-> None, again |-> None, shifted |-> None]
    /\ tkcirc = None /\ call = None /\ fwd = None /\ bkcirc = None /\ rev = None
    /\ thread = None /\ heap = None
    /\ backend = None /\ device = None /\ client = None

Normalize ==
    /\ pc = "norm"
    /\ norm.first = None
    /\ norm' = [norm EXCEPT !.first = <<_normalize_angle(angle.n)>>]
    /\ UNCHANGED <<pc, angle, convVars, threadVars, backendVars>>

NormalizeAgain ==
    /\ pc = "norm"
    /\ Returned(norm.first)
    /\ norm.again = None
    /\ norm' = [norm EXCEPT !.again = <<_normalize_angle(Value(norm.first))>>]
    /\ UNCHANGED <<pc, angle, convVars, threadVars, backendVars>>

NormalizeShifted ==
    /\ pc = "norm"
    /\ norm.shifted = None
    /\ norm' = [norm EXCEPT
                  !.shifted = <<_normalize_angle(angle.n + 4 * HalfTurn * angle.k)>>]
    /\ UNCHANGED <<pc, angle, convVars, threadVars, backendVars>>

NextNorm == Normalize \/ NormalizeAgain \/ NormalizeShifted

SpecNorm == InitNorm /\ [][NextNorm]_vars

InRange(x) == x > 0 - 2 * HalfTurn /\ x <= 2 * HalfTurn

\* C1: every value _normalize_angle returns lies in (-2, 2] half-turns:
\* strictly greater than -2 and at most 2, whatever the input.
C1_Range ==
    \A f \in {"first", "again", "shifted"} : Returned(norm[f]) => InRange(Value(norm[f]))

\* A negative input far below the range has been normalized.
C1_Witness ==
    /\ angle.n < 0 - 4 * HalfTurn
    /\ Returned(norm.first)

\* C2: _normalize_angle(n + 4k) equals _normalize_angle(n) for every n and
\* every integer k, negative n and negative k included.
C2_Periodic ==
    (Returned(norm.first) /\ Returned(norm.shifted))
        => Value(norm.shifted) = Value(norm.first)

\* Both calls made for a negative n and a negative k.
C2_Witness ==
    /\ angle.n < 0
    /\ angle.k < 0
    /\ Returned(norm.first)
    /\ Returned(norm.shifted)

\* C3: _normalize_angle is idempotent: normalizing a normalized value gives
\* that value again.
C3_Idempotent ==
    Returned(norm.again) => Value(norm.again) = Value(norm.first)

\* The second call made on a result that the first call folded (n mod 4 > 2).
C3_Witness ==
    /\ angle.n % (4 * HalfTurn) > 2 * HalfTurn
    /\ Returned(norm.again)

-----------------------------------------------------------------------------
(* The client of the translators.  It builds a circuit of NQubits qubits    *)
(* and NBits bits command by command, calls tk_to_braket on it with the     *)
(* default arguments and braket_to_tk on the braket circuit it got (the     *)
(* round trip of tests/convert_test.py); or it builds a braket circuit      *)
(* instruction by instruction and calls braket_to_tk on it.  The qubits are *)
(* q[0..NQubits-1], as Circuit(NQubits) declares them, or q[1..NQubits],    *)
(* declared one by one with add_qubit.                                      *)

\* The gate kinds the client uses: those of the forward if-chain, and kinds
\* without a branch (U3, the unitary boxes).
OneQubitKinds ==
    {"H", "noop", "S", "Sdg", "T", "Tdg", "V", "Vdg", "X", "Y", "Z", "U1", "Rx",
     "Ry", "Rz", "GPI", "GPI2", "PhasedX", "U3", "Unitary1qBox"}
TwoQubitKinds ==
    {"CX", "CY", "CZ", "SWAP", "ISWAPMax", "CU1", "XXPhase", "ISWAP", "YYPhase",
     "ZZPhase", "AAMS", "Unitary2qBox"}
ThreeQubitKinds == {"CCX", "CSWAP", "Unitary3qBox"}
GateKinds == OneQubitKinds \cup TwoQubitKinds \cup ThreeQubitKinds

n_qubits(op) ==
    IF op \in OneQubitKinds THEN 1 ELSE IF op \in TwoQubitKinds THEN 2 ELSE 3
n_params(op) ==
    CASE op \in {"U1", "Rx", "Ry", "Rz", "GPI", "GPI2", "CU1", "XXPhase",
                 "ISWAP", "YYPhase", "ZZPhase"} -> 1
      [] op = "PhasedX" -> 2
      [] op \in {"AAMS", "U3"} -> 3
      [] OTHER -> 0

Bits == 0 .. (NBits - 1)
LastBit == NBits - 1
LastQubit == NQubits - 1
QubitLists ==
    {[i \in 1..NQubits |-> i - 1], [i \in 1..NQubits |-> i]}

\* Operands: the first qubits of the list qs in ascending or in descending
\* order.
Reversed(qs) == [i \in 1..Len(qs) |-> qs[Len(qs) + 1 - i]]
QubitOrders(qs) == {qs, Reversed(qs)}
\* Parameters: a gate's angles are a, a+1, ... for a inside (-2, 2] half-turns
\* or beyond 2 half-turns.
AngleInside == 1
AngleBeyond == 2 * HalfTurn + 1
AngleEdge == 2 * HalfTurn
AngleStarts == {AngleInside, AngleEdge, AngleBeyond}

GateCmd(op, order, a) ==
    Cmd(op, [i \in 1..n_params(op) |-> a + i - 1],
        SubSeq(order, 1, n_qubits(op)), << >>)

\* The commands on the qubits qs.
AnyCmds(qs) ==
    {GateCmd(op, order, a) : op \in GateKinds, order \in QubitOrders(qs),
                             a \in AngleStarts}
      \cup {Cmd("Measure", << >>, <<qs[i]>>, <<b>>) : i \in 1..Len(qs), b \in Bits}
      \cup {Cmd("Barrier", << >>, <<qs[i]>>, << >>) : i \in 1..Len(qs)}

\* The commands a circuit may hold any number of; of the others it holds at
\* most one.
CoreCmds(qs) ==
    {Cmd("H", << >>, <<qs[Len(qs)]>>, << >>),
     Cmd("CX", << >>, <<qs[Len(qs)], qs[2]>>, << >>),
     Cmd("V", << >>, <<qs[1]>>, << >>),
     Cmd("Vdg", << >>, <<qs[1]>>, << >>),
     Cmd("noop", << >>, <<qs[1]>>, << >>),
     Cmd("Barrier", << >>, <<qs[1]>>, << >>),
     Cmd("Measure", << >>, <<qs[1]>>, <<LastBit>>),
     Cmd("Measure", << >>, <<qs[2]>>, <<0>>)}

\* The same sets, computed once for each list of qubits.
AnyCmdsOf == [qs \in QubitLists |-> AnyCmds(qs)]
CoreCmdsOf == [qs \in QubitLists |-> CoreCmds(qs)]

AllCore(c) == \A i \in 1..Len(c.cmds) : c.cmds[i] \in CoreCmdsOf[c.qubits]

\* The commands the client may add next to the circuit c.
NextCmds(c) ==
    IF AllCore(c) THEN AnyCmdsOf[c.qubits] ELSE CoreCmdsOf[c.qubits]

\* A circuit without commands, of the qubits q[i] for i in qs and m bits.
Circuit(qs, m) ==
    [qubits |-> qs, bits |-> [i \in 1..m |-> i - 1],
     cmds |-> << >>, wire_swaps |-> << >>, phase |-> 0]

\* The instruction names the client uses: those of the reverse if-chain, what
\* the forward translator emits besides, and the names the comment of lines
\* 244-255 lists.
BkNames ==
    ReverseNames \cup {"GPi", "GPi2", "MS", "CPhaseShift00", "CPhaseShift01",
                       "CPhaseShift10", "PSwap", "MeasureFF", "CCPrx", "Unitary"}
bk_n_qubits(name) ==
    CASE name \in {"CCNot", "CSwap"} -> 3
      [] name \in {"CNot", "CPhaseShift", "CY", "CZ", "ISwap", "Swap", "XX",
                   "XY", "YY", "ZZ", "MS", "CPhaseShift00", "CPhaseShift01",
                   "CPhaseShift10", "PSwap", "Unitary"} -> 2
      [] OTHER -> 1
bk_n_angles(name) ==
    CASE name \in DOMAIN ReverseAngle
           \cup {"GPi", "GPi2", "CPhaseShift00", "CPhaseShift01",
                 "CPhaseShift10", "PSwap"} -> 1
      [] name \in {"PRx", "CCPrx"} -> 2
      [] name = "MS" -> 3
      [] OTHER -> 0

BkQubits == [i \in 1..NQubits |-> i - 1]

BkInstr(name, order, a) ==
    Instr(name, SubSeq(order, 1, bk_n_qubits(name)),
          [i \in 1..bk_n_angles(name) |-> TimesPi(a + i - 1)])

AnyInstrs ==
    {BkInstr(name, order, a) : name \in BkNames, order \in QubitOrders(BkQubits),
                               a \in AngleStarts}
CoreInstrs ==
    {Instr("H", <<LastQubit>>, << >>), Instr("I", <<1>>, << >>),
     Instr("V", <<0>>, << >>), Instr("Vi", <<0>>, << >>)}
AllCoreInstrs(bk) ==
    \A i \in 1..Len(bk.instructions) : bk.instructions[i] \in CoreInstrs

\* The instructions the client may add next to the braket circuit bk.
NextInstrs(bk) ==
    IF AllCoreInstrs(bk) THEN AnyInstrs \cup CoreInstrs ELSE CoreInstrs

DefaultCall ==
    [mapped_qubits |-> FALSE, forced_qubits |-> None,
     force_ops_on_target_qubits |-> FALSE]

Init ==
    /\ pc = "build"
    /\ angle = None /\ norm = None
    /\ tkcirc \in {Circuit(qs, NBits) : qs \in QubitLists}
    /\ call = None
    /\ fwd = None
    /\ bkcirc = [instructions |-> << >>]
    /\ rev = None
    /\ thread = None /\ heap = None
    /\ backend = None /\ device = None /\ client = None

\* Circuit.add_gate, Circuit.Measure, Circuit.add_barrier
AddCommand(cmd) ==
    /\ pc = "build"
    /\ bkcirc.instructions = << >>
    /\ Len(tkcirc.cmds) < MaxCmds
    /\ cmd \in NextCmds(tkcirc)
    /\ tkcirc' = [tkcirc EXCEPT !.cmds = Append(@, cmd)]
    /\ UNCHANGED <<pc, normVars, threadVars, backendVars, call, fwd, bkcirc, rev>>

\* A rewrite of the circuit that leaves the wires of its first two qubits
\* swapped implicitly.
ImplicitSwap ==
    /\ pc = "build"
    /\ bkcirc.instructions = << >>
    /\ tkcirc.wire_swaps = << >>
    /\ tkcirc' = [tkcirc EXCEPT !.wire_swaps = <<<<tkcirc.qubits[1], tkcirc.qubits[2]>>>>]
    /\ UNCHANGED <<pc, normVars, threadVars, backendVars, call, fwd, bkcirc, rev>>

\* bkc, target_qubits, measures = tk_to_braket(c)
TkToBraket ==
    /\ pc = "build"
    /\ bkcirc.instructions = << >>
    /\ call' = DefaultCall
    /\ fwd' = tk_to_braket(tkcirc, DefaultCall.mapped_qubits,
                           DefaultCall.forced_qubits,
                           DefaultCall.force_ops_on_target_qubits)
    /\ pc' = "converted"
    /\ tkcirc' = caller_circuit(tkcirc)
    /\ UNCHANGED <<normVars, threadVars, backendVars, bkcirc, rev>>

\* c1 = braket_to_tk(bkc), on the braket circuit tk_to_braket returned
RoundTrip ==
    /\ pc = "converted"
    /\ fwd.status = "ok"
    /\ bkcirc' = Value(fwd.value).bkcirc
    /\ rev' = braket_to_tk(Value(fwd.value).bkcirc)
    /\ pc' = "done"
    /\ UNCHANGED <<normVars, threadVars, backendVars, tkcirc, call, fwd>>

\* A braket circuit built by the client, one instruction at a time.
BkAddInstr(instr) ==
    /\ pc = "build"
    /\ tkcirc = Circuit(BkQubits, NBits)
    /\ Len(bkcirc.instructions) < MaxCmds
    /\ instr \in NextInstrs(bkcirc)
    /\ bkcirc' = [bkcirc EXCEPT !.instructions = Append(@, instr)]
    /\ UNCHANGED <<pc, normVars, threadVars, backendVars, tkcirc, call, fwd, rev>>

\* c1 = braket_to_tk(bkc), on the client's braket circuit
BraketToTk ==
    /\ pc = "build"
    /\ bkcirc.instructions # << >>
    /\ rev' = braket_to_tk(bkcirc)
    /\ pc' = "done"
    /\ UNCHANGED <<normVars, threadVars, backendVars, tkcirc, call, fwd, bkcirc>>

Next ==
    \/ \E cmd \in NextCmds(tkcirc) : AddCommand(cmd)
    \/ ImplicitSwap
    \/ TkToBraket
    \/ RoundTrip
    \/ \E instr \in NextInstrs(bkcirc) : BkAddInstr(instr)
    \/ BraketToTk

Spec == Init /\ [][Next]_vars

-----------------------------------------------------------------------------
(* The backend as client (BraketBackend._to_bkcirc): it calls tk_to_braket  *)
(* with mapped_qubits set for a QPU, force_ops_on_target_qubits set when    *)
(* the device has the identity gate, and forced_qubits the device's qubits  *)
(* or None.  The circuits are those of the core commands.                   *)

\* forced_qubits: None, or a list with a qubit beyond those of the circuit and
\* one of the circuit.
ForcedLists == {None, <<NQubits + 1, 1>>}
Calls ==
    [mapped_qubits : BOOLEAN, forced_qubits : ForcedLists,
     force_ops_on_target_qubits : BOOLEAN]

\* bkcirc, target_qubits, measures = self._to_bkcirc(c0)
TkToBraketWith(args) ==
    /\ pc = "build"
    /\ call' = args
    /\ fwd' = tk_to_braket(tkcirc, args.mapped_qubits, args.forced_qubits,
                           args.force_ops_on_target_qubits)
    /\ pc' = "converted"
    /\ tkcirc' = caller_circuit(tkcirc)
    /\ UNCHANGED <<normVars, threadVars, backendVars, bkcirc, rev>>

NextFlags ==
    \/ \E cmd \in CoreCmdsOf[tkcirc.qubits] : AddCommand(cmd)
    \/ ImplicitSwap
    \/ \E args \in Calls : TkToBraketWith(args)

SpecFlags == Init /\ [][NextFlags]_vars

-----------------------------------------------------------------------------
(* Properties of the translators.                                           *)

\* tk_to_braket has been called on tkcirc, and has returned or raised.
Called == pc \in {"converted", "done"} /\ call # None
\* ... and braket_to_tk on what it returned.
RoundTripped == pc = "done" /\ call # None
\* braket_to_tk has been called on bkcirc.
CalledReverse == pc = "done"

Ops(c) == {c.cmds[i].op : i \in 1..Len(c.cmds)}
Boxes == {"Unitary1qBox", "Unitary2qBox", "Unitary3qBox"}
NoPadding ==
    call.forced_qubits = None /\ ~call.force_ops_on_target_qubits
Count(seq, Test(_)) == Cardinality({i \in 1..Len(seq) : Test(seq[i])})
Positions(c, q) ==
    [i \in 1..Len(q) |-> index(c.qubits, q[i])]

IsGateOp(cmd) == cmd.op \notin {"Barrier", "Measure"}
EmitsInstr(cmd) == cmd.op \notin {"Barrier", "Measure", "noop"}

\* The instructions follow the commands seq one for one: the same number, and
\* in the same order the table's instruction on the same operands.
ForwardName(op) ==
    CASE op \in DOMAIN FixedGates -> FixedGates[op]
      [] op \in DOMAIN DirectGates -> DirectGates[op]
      [] op \in DOMAIN NormalizedGates -> NormalizedGates[op]
      [] op = "noop" -> "I"
      [] op = "AAMS" -> "MS"
      [] op = "PhasedX" -> "PRx"

OneForOne(instrs, seq, c) ==
    /\ Len(instrs) = Len(seq)
    /\ \A i \in 1..Len(seq) :
          /\ instrs[i].name = ForwardName(seq[i].op)
          /\ instrs[i].target = Positions(c, seq[i].qubits)

\* C4 as claimed: a circuit of forward-table gates, barriers and measurements
\* translates, with no padding, to exactly one instruction per operation that
\* is neither a barrier nor a measurement, in source order.
C4_OnePerGateOp ==
    (Called /\ NoPadding
       /\ Ops(tkcirc) \subseteq ForwardGates \cup {"Barrier", "Measure"})
    => /\ fwd.status = "ok"
       /\ OneForOne(Value(fwd.value).bkcirc.instructions,
                    SelectSeq(tkcirc.cmds, IsGateOp), tkcirc)

\* C4 amended: for a circuit of forward-table gates, barriers and measurements
\* with no implicit wire swaps, tk_to_braket with no padding succeeds and the
\* instruction list holds exactly one instruction per operation that is
\* neither a barrier, a measurement nor a noop, in source order; barriers and
\* noops contribute no instruction.
C4_OnePerEmittingOp ==
    (Called /\ NoPadding /\ tkcirc.wire_swaps = << >>
       /\ Ops(tkcirc) \subseteq ForwardGates \cup {"Barrier", "Measure"})
    => /\ fwd.status = "ok"
       /\ OneForOne(Value(fwd.value).bkcirc.instructions,
                    SelectSeq(tkcirc.cmds, EmitsInstr), tkcirc)

\* A gate followed by a barrier has been translated (test_convert_barriers).
C4_Witness ==
    /\ Called /\ NoPadding /\ tkcirc.wire_swaps = << >>
    /\ Len(tkcirc.cmds) = 2
    /\ tkcirc.cmds[1].op = "H"
    /\ tkcirc.cmds[2].op = "Barrier"
    /\ fwd.status = "ok"
    /\ Len(Value(fwd.value).bkcirc.instructions) = 1

\* C5: when the circuit holds, at any position, an operation whose kind has no
\* branch in the forward table, tk_to_braket raises NotImplementedError and
\* the caller receives nothing: no instruction list, no qubit list, no
\* measurement map.
C5_UnsupportedRaises ==
    (Called /\ ~(Ops(tkcirc) \subseteq ForwardGates \cup {"Barrier", "Measure"}))
    => /\ fwd.status = "NotImplementedError"
       /\ fwd.value = None

\* The unsupported operation came last, after a gate and a measurement had
\* been translated.
C5_Witness ==
    /\ Called
    /\ Len(tkcirc.cmds) = MaxCmds
    /\ tkcirc.cmds[Len(tkcirc.cmds)].op = "U3"
    /\ \E i \in 1..Len(tkcirc.cmds) : tkcirc.cmds[i].op \in {"H", "Measure"}
    /\ fwd.status = "NotImplementedError"

\* The gate kinds in both tables: a branch in tk_to_braket, and a branch of
\* braket_to_tk that gives the kind back (I stands for noop).
InBothTables ==
    {op \in ForwardGates :
        op \in {ReverseFixed[n] : n \in DOMAIN ReverseFixed}
                 \cup {ReverseAngle[n] : n \in DOMAIN ReverseAngle}
                 \cup {"PhasedX", "noop"}}

AnglesInside(c) ==
    \A i \in 1..Len(c.cmds) : \A j \in 1..Len(c.cmds[i].params) :
        InRange(c.cmds[i].params[j])

DenseQubits(c) == \A i \in 1..Len(c.qubits) : c.qubits[i] = i - 1

SameCommands ==
    /\ rev.status = "ok"
    /\ Value(rev.value).cmds = tkcirc.cmds

\* C6 as claimed: a circuit on qubits of the default register, of gate kinds
\* in both tables, without barriers or measurements and with its angles in
\* (-2, 2], comes back from braket_to_tk(tk_to_braket(c)) with the same
\* command sequence.
C6_RoundTrip ==
    (Called /\ Ops(tkcirc) \subseteq InBothTables /\ AnglesInside(tkcirc))
    => /\ fwd.status = "ok"
       /\ RoundTripped => SameCommands

\* C6 amended: a circuit whose qubits are q[0..n-1], of gate kinds in both
\* tables other than noop, without barriers, measurements or implicit wire
\* swaps and with its angles in (-2, 2], comes back from braket_to_tk(tk_to_braket(c)) with the
\* same command sequence: the same kinds, parameters and operands in the same
\* order.
C6_RoundTripNoNoop ==
    (Called /\ DenseQubits(tkcirc)
       /\ Ops(tkcirc) \subseteq InBothTables \ {"noop"}
       /\ tkcirc.wire_swaps = << >>
       /\ AnglesInside(tkcirc))
    => /\ fwd.status = "ok"
       /\ RoundTripped => SameCommands

\* A two-qubit gate on (q[2], q[1]) and a normalized rotation with its angle
\* inside the range have made the round trip.
C6_Witness ==
    /\ RoundTripped
    /\ tkcirc.wire_swaps = << >>
    /\ Len(tkcirc.cmds) = 2
    /\ DenseQubits(tkcirc)
    /\ tkcirc.cmds[1] = Cmd("CX", << >>, <<LastQubit, 1>>, << >>)
    /\ tkcirc.cmds[2].op = "Rx"
    /\ AnglesInside(tkcirc)
    /\ SameCommands

\* C7 as claimed (test_convert, lines 51-80): a circuit with unitary boxes is
\* converted by tk_to_braket without error, and braket_to_tk gives back the
\* same command sequence, boxes included.
C7_BoxesRoundTrip ==
    (Called /\ DenseQubits(tkcirc) /\ Ops(tkcirc) \cap Boxes # {}
       /\ Ops(tkcirc) \subseteq (InBothTables \ {"noop"}) \cup Boxes
       /\ tkcirc.wire_swaps = << >>
       /\ AnglesInside(tkcirc))
    => /\ fwd.status = "ok"
       /\ RoundTripped => SameCommands

HasInstr(bk, name) ==
    \E i \in 1..Len(bk.instructions) : bk.instructions[i].name = name

C8_WitnessForward ==
    /\ Called
    /\ Len(tkcirc.cmds) = 2
    /\ tkcirc.cmds[1].op = "H"
    /\ tkcirc.cmds[2].op \in Boxes
    /\ fwd.status = "NotImplementedError"

NamedV(instr) == instr.name = "V"
NamedVi(instr) == instr.name = "Vi"
IsV(cmd) == cmd.op = "V"
IsVdg(cmd) == cmd.op = "Vdg"

\* C9: braket_to_tk appends a V gate and adds 0.25 half-turns of global phase
\* for every V instruction, and appends a Vdg gate and adds -0.25 for every Vi
\* instruction, so the phase of its circuit is 0.25 * (#V - #Vi): zero for V
\* followed by Vdg, which come back as exactly those two gates.
C9_GlobalPhase ==
    (CalledReverse /\ rev.status = "ok")
    => LET c1 == Value(rev.value)
           nV == Count(bkcirc.instructions, NamedV)
           nVi == Count(bkcirc.instructions, NamedVi)
       IN  /\ 4 * c1.phase = HalfTurn * (nV - nVi)
           /\ Count(c1.cmds, IsV) = nV
           /\ Count(c1.cmds, IsVdg) = nVi

\* V on q[0] followed by Vdg on q[0] has made the round trip: two gates, phase 0.
C9_Witness ==
    /\ RoundTripped
    /\ DenseQubits(tkcirc)
    /\ tkcirc.cmds = <<Cmd("V", << >>, <<0>>, << >>),
                       Cmd("Vdg", << >>, <<0>>, << >>)>>
    /\ rev.status = "ok"
    /\ Value(rev.value).cmds = tkcirc.cmds
    /\ Value(rev.value).phase = 0

\* A lone Vi has been reversed: phase -0.25.
C9_WitnessVi ==
    /\ CalledReverse
    /\ rev.status = "ok"
    /\ Count(bkcirc.instructions, NamedVi) = 1
    /\ Count(bkcirc.instructions, NamedV) = 0
    /\ 4 * Value(rev.value).phase = 0 - HalfTurn

MeasuresOf(c, q) ==
    SelectSeq(c.cmds, LAMBDA cmd : cmd.op = "Measure" /\ cmd.qubits = <<q>>)

\* C10: a measurement adds no instruction; each Measure(q, b) sets the entry
\* of the measurement map at q's target index to the index of b in the
\* circuit's bits (the last Measure of a qubit stands), and the map has no entry
\* for a qubit that is not measured.
C10_MeasurementMap ==
    (Called /\ fwd.status = "ok")
    => LET out == Value(fwd.value)
           c1 == working_copy(tkcirc)
       IN  /\ Len(out.bkcirc.instructions)
                 = Len(padding(out.target_qubits, call.forced_qubits,
                               call.force_ops_on_target_qubits))
                   + Count(c1.cmds, EmitsInstr)
           /\ DOMAIN out.measures
                 = {out.target_qubits[i] :
                      i \in {j \in 1..Len(c1.qubits) :
                               MeasuresOf(c1, c1.qubits[j]) # << >>}}
           /\ \A i \in 1..Len(c1.qubits) :
                 LET ms == MeasuresOf(c1, c1.qubits[i])
                 IN  ms # << >> =>
                       out.measures[out.target_qubits[i]]
                         = index(c1.bits, ms[Len(ms)].bits[1])

\* The first qubit, q[1], has been measured into the last bit, next to
\* another operation, and no other qubit has been measured.
C10_Witness ==
    /\ Called /\ fwd.status = "ok"
    /\ Len(tkcirc.cmds) = 2
    /\ tkcirc.cmds[1].op = "H"
    /\ tkcirc.cmds[2] = Cmd("Measure", << >>, <<1>>, <<LastBit>>)
    /\ tkcirc.qubits[1] = 1
    /\ Value(fwd.value).measures = [q \in {0} |-> LastBit]
    /\ Len(Value(fwd.value).bkcirc.instructions) = 1

-----------------------------------------------------------------------------
(* Properties of tk_to_braket under the backend's arguments.                *)

Identity(n) == [i \in 1..n |-> i - 1]

\* C11: the target qubit list has one entry per declared qubit, in the
\* circuit's declared order whatever the order in which the operations touch
\* the qubits; with mapped_qubits False it is exactly [0, 1, ..., n-1].
C11_TargetQubitOrder ==
    (Called /\ fwd.status = "ok")
    => LET tq == Value(fwd.value).target_qubits
       IN  /\ Len(tq) = Len(tkcirc.qubits)
           /\ ~call.mapped_qubits => tq = Identity(Len(tkcirc.qubits))
           /\ call.mapped_qubits => tq = tkcirc.qubits

\* The first operation touches the last qubit and no operation touches the
\* first (test_convert_qubit_order): the list is still [0, ..., n-1].
C11_Witness ==
    /\ Called /\ fwd.status = "ok"
    /\ ~call.mapped_qubits
    /\ ~DenseQubits(tkcirc)
    /\ Len(tkcirc.cmds) = 2
    /\ tkcirc.cmds[1].op = "H"
    /\ tkcirc.cmds[2].op = "CX"
    /\ Value(fwd.value).target_qubits = Identity(NQubits)

\* The circuit c with its implicit wire swaps written out as SWAP gates at its
\* end, and c with the identity as its implicit permutation.
WithExplicitSwaps(c) ==
    [c EXCEPT
       !.cmds = c.cmds \o [i \in 1..Len(c.wire_swaps) |->
                              Cmd("SWAP", << >>, c.wire_swaps[i], << >>)],
       !.wire_swaps = << >>]
WithoutSwaps(c) == [c EXCEPT !.wire_swaps = << >>]

Translated(c) ==
    tk_to_braket(c, call.mapped_qubits, call.forced_qubits,
                 call.force_ops_on_target_qubits)

\* C12: for a circuit without Measure operations tk_to_braket replaces the
\* implicit qubit permutation on its working copy, so what it delivers is what
\* it delivers for the same circuit with the wire swaps made explicit; for a
\* circuit with a Measure operation that step is skipped and the operations
\* are translated as they are, the implicit permutation left aside.
C12_ImplicitPermutation ==
    Called =>
      IF n_gates_of_type(tkcirc, "Measure") = 0
      THEN fwd = Translated(WithExplicitSwaps(tkcirc))
      ELSE fwd = Translated(WithoutSwaps(tkcirc))

\* A circuit with an implicit wire swap and no measurement has been
\* translated: the instruction list ends with the Swap.
C12_Witness ==
    /\ Called /\ fwd.status = "ok"
    /\ tkcirc.wire_swaps # << >>
    /\ n_gates_of_type(tkcirc, "Measure") = 0
    /\ tkcirc.cmds # << >>
    /\ LET instrs == Value(fwd.value).bkcirc.instructions
       IN  /\ instrs # << >>
           /\ instrs[Len(instrs)].name = "Swap"

\* A circuit with an implicit wire swap and a measurement has been translated:
\* no Swap instruction.
C12_WitnessMeasured ==
    /\ Called /\ fwd.status = "ok"
    /\ tkcirc.wire_swaps # << >>
    /\ n_gates_of_type(tkcirc, "Measure") > 0
    /\ \A i \in 1..Len(Value(fwd.value).bkcirc.instructions) :
          Value(fwd.value).bkcirc.instructions[i].name # "Swap"

-----------------------------------------------------------------------------
(* Properties of braket_to_tk.                                              *)

InstrNames(bk) == {bk.instructions[i].name : i \in 1..Len(bk.instructions)}
\* The names the comment of lines 244-255 lists.
ListedUnsupported ==
    {"CPhaseShift00", "CPhaseShift01", "CPhaseShift10", "PSwap", "MeasureFF",
     "CCPrx", "Unitary"}

Referenced(bk) ==
    {q \in 0..(NQubits + 1) :
        \E i \in 1..Len(bk.instructions) :
           \E j \in 1..Len(bk.instructions[i].target) :
              bk.instructions[i].target[j] = q}

\* C14: the circuit braket_to_tk returns declares exactly one qubit q[i] per
\* target index i the instructions refer to, no other qubit, and no bits.
C14_DeclaredQubits ==
    (CalledReverse /\ rev.status = "ok")
    => LET c1 == Value(rev.value)
       IN  /\ {c1.qubits[i] : i \in 1..Len(c1.qubits)} = Referenced(bkcirc)
           /\ Len(c1.qubits) = Cardinality(Referenced(bkcirc))
           /\ c1.bits = << >>

\* The instructions refer to the last qubit and to no other: the circuit
\* declares that one qubit.
C14_Witness ==
    /\ CalledReverse /\ rev.status = "ok"
    /\ Referenced(bkcirc) = {LastQubit}
    /\ Value(rev.value).qubits = <<LastQubit>>

NamedI(instr) == instr.name = "I"
NotNamedI(instr) == instr.name # "I"
WithoutI(bk) == [instructions |-> SelectSeq(bk.instructions, NotNamedI)]

\* C15: braket_to_tk appends no command for an I instruction: the commands of
\* the result are those of the same instruction list with every I deleted, and
\* the qubits the I instructions refer to are declared all the same.
C15_IdentityDropped ==
    (CalledReverse /\ rev.status = "ok")
    => LET c1 == Value(rev.value)
           c2 == braket_to_tk(WithoutI(bkcirc))
       IN  /\ c2.status = "ok"
           /\ c1.cmds = Value(c2.value).cmds
           /\ \A i \in 1..Len(bkcirc.instructions) :
                 NamedI(bkcirc.instructions[i])
                 => \A j \in 1..Len(bkcirc.instructions[i].target) :
                       \E k \in 1..Len(c1.qubits) :
                          c1.qubits[k] = bkcirc.instructions[i].target[j]

\* An I instruction among others that do add a command, on a qubit no other
\* instruction refers to.
C15_Witness ==
    /\ CalledReverse /\ rev.status = "ok"
    /\ Count(bkcirc.instructions, NamedI) > 0
    /\ Value(rev.value).cmds # << >>
    /\ Len(Value(rev.value).cmds) < Len(bkcirc.instructions)
    /\ Referenced(WithoutI(bkcirc)) # Referenced(bkcirc)

\* The commands that add an instruction, in order, and with the default call
\* the instruction each of them added.
Emitting(c) == SelectSeq(c.cmds, EmitsInstr)
Emitted(i) == Value(fwd.value).bkcirc.instructions[i]

BoundedKinds == {"Rx", "Rz", "ZZPhase", "GPI", "GPI2", "PhasedX", "AAMS"}
UnboundedKinds == {"U1", "CU1", "Ry", "XXPhase", "YYPhase", "ISWAP"}
Normalized(params) ==
    [j \in 1..Len(params) |-> TimesPi(_normalize_angle(params[j]))]
SameAngles(a, b) ==
    /\ Len(a) = Len(b)
    /\ \A x \in {a[j] : j \in 1..Len(a)} \cup {b[j] : j \in 1..Len(b)} :
          Cardinality({j \in 1..Len(a) : a[j] = x})
              = Cardinality({j \in 1..Len(b) : b[j] = x})

\* C16: the angles of the instruction a gate emits are _normalize_angle(p) * pi
\* for Rx, Rz, ZZPhase, GPI, GPI2, for PhasedX (both angles, in order) and for
\* AAMS (all three angles); they are p * pi, with p as it stands, for U1, CU1,
\* Ry, XXPhase, YYPhase and ISWAP, whether or not p lies in (-2, 2].
C16_AngleTable ==
    (Called /\ fwd.status = "ok" /\ NoPadding)
    => \A i \in 1..Len(Emitting(tkcirc)) :
          LET cmd == Emitting(tkcirc)[i]
          IN  /\ cmd.op \in BoundedKinds \ {"AAMS"}
                 => Emitted(i).angles = Normalized(cmd.params)
              /\ cmd.op = "AAMS"
                 => SameAngles(Emitted(i).angles, Normalized(cmd.params))
              /\ cmd.op \in UnboundedKinds
                 => Emitted(i).angles = <<TimesPi(cmd.params[1])>>

\* An Ry whose angle lies outside (-2, 2] has been translated, and its angle
\* is not the normalized one.
C16_Witness ==
    /\ Called /\ fwd.status = "ok" /\ NoPadding
    /\ \E i \in 1..Len(Emitting(tkcirc)) :
          LET cmd == Emitting(tkcirc)[i]
          IN  /\ cmd.op = "Ry"
              /\ ~InRange(cmd.params[1])
              /\ Emitted(i).name = "Ry"
              /\ Emitted(i).angles # Normalized(cmd.params)

\* An Rx whose angle lies outside (-2, 2] has been translated, and its angle
\* is not p * pi.
C16_WitnessBounded ==
    /\ Called /\ fwd.status = "ok" /\ NoPadding
    /\ \E i \in 1..Len(Emitting(tkcirc)) :
          LET cmd == Emitting(tkcirc)[i]
          IN  /\ cmd.op = "Rx"
              /\ ~InRange(cmd.params[1])
              /\ Emitted(i).name = "Rx"
              /\ Emitted(i).angles # <<TimesPi(cmd.params[1])>>

\* C17: AAMS with parameters [p0, p1, p2] is emitted as MS with the angles
\* [p1, p2, p0], each normalized and multiplied by pi, on the operands of the
\* AAMS in the same order.
C17_AAMSOrder ==
    (Called /\ fwd.status = "ok" /\ NoPadding)
    => \A i \in 1..Len(Emitting(tkcirc)) :
          LET cmd == Emitting(tkcirc)[i]
          IN  cmd.op = "AAMS"
              => /\ Emitted(i).name = "MS"
                 /\ Emitted(i).angles =
                       <<TimesPi(_normalize_angle(cmd.params[2])),
                         TimesPi(_normalize_angle(cmd.params[3])),
                         TimesPi(_normalize_angle(cmd.params[1]))>>
                 /\ Emitted(i).target = Positions(tkcirc, cmd.qubits)

\* An AAMS with three different angles, on operands in descending order, has
\* been translated.
C17_Witness ==
    /\ Called /\ fwd.status = "ok" /\ NoPadding
    /\ \E i \in 1..Len(Emitting(tkcirc)) :
          LET cmd == Emitting(tkcirc)[i]
          IN  /\ cmd.op = "AAMS"
              /\ Cardinality({Normalized(cmd.params)[j] : j \in 1..3}) = 3
              /\ Emitted(i).target[1] > Emitted(i).target[2]

IsNoop(cmd) == cmd.op = "noop"
NotNoop(cmd) == cmd.op # "noop"
WithoutNoop(c) == [c EXCEPT !.cmds = SelectSeq(@, NotNoop)]

\* C18 as claimed: the identity gate maps directly: each noop on qubit q emits
\* one I instruction on q's target index.
C18_NoopEmitsI ==
    (Called /\ fwd.status = "ok" /\ NoPadding)
    => LET instrs == Value(fwd.value).bkcirc.instructions
       IN  /\ Count(instrs, NamedI) = Count(tkcirc.cmds, IsNoop)
           /\ \A i \in 1..Len(tkcirc.cmds) :
                 IsNoop(tkcirc.cmds[i])
                 => \E k \in 1..Len(instrs) :
                       /\ NamedI(instrs[k])
                       /\ instrs[k].target =
                             Positions(tkcirc, tkcirc.cmds[i].qubits)

\* C18 amended: noop has a branch of its own in the forward table, and the
\* branch emits nothing: when the circuit without its noops translates, the
\* circuit translates too, to the same instruction list, target qubits and
\* measurement map; with no padding no I instruction is emitted.
C18_NoopEmitsNothing ==
    LET plain == tk_to_braket(WithoutNoop(tkcirc), call.mapped_qubits,
                              call.forced_qubits,
                              call.force_ops_on_target_qubits)
    IN  (Called /\ plain.status = "ok")
        => /\ fwd = plain
           /\ NoPadding
              => Count(Value(fwd.value).bkcirc.instructions, NamedI) = 0

\* A noop between other operations has been translated.
C18_Witness ==
    /\ Called /\ fwd.status = "ok" /\ NoPadding
    /\ Count(tkcirc.cmds, IsNoop) > 0
    /\ Value(fwd.value).bkcirc.instructions # << >>

\* The target index of the qubit q of the circuit c under the call's
\* mapped_qubits: its label, or its position in c.qubits.
TargetIndex(c, q) == IF call.mapped_qubits THEN q ELSE index(c.qubits, q)
TargetIndices(c, qs) == [i \in 1..Len(qs) |-> TargetIndex(c, qs[i])]
\* The number of padding instructions the call asks for.
NPadding(c) ==
    (IF call.force_ops_on_target_qubits THEN Len(c.qubits) ELSE 0)
    + (IF call.forced_qubits # None THEN Len(call.forced_qubits) ELSE 0)
IsMeasure(cmd) == cmd.op = "Measure"

\* C19: with mapped_qubits True the target index of a qubit is its own label,
\* with mapped_qubits False its position in the circuit's qubit list: in the
\* target qubit list, in the operands of every instruction emitted for an
\* operation, and in the keys of the measurement map.
C19_QubitIndexMap ==
    (Called /\ fwd.status = "ok")
    => LET v == Value(fwd.value)
           instrs == v.bkcirc.instructions
           ops == Emitting(tkcirc)
           measured == SelectSeq(tkcirc.cmds, IsMeasure)
       IN  /\ v.target_qubits = TargetIndices(tkcirc, tkcirc.qubits)
           /\ Len(instrs) >= NPadding(tkcirc) + Len(ops)
           /\ \A i \in 1..Len(ops) :
                 instrs[NPadding(tkcirc) + i].target
                     = TargetIndices(tkcirc, ops[i].qubits)
           /\ DOMAIN v.measures =
                 {TargetIndex(tkcirc, measured[i].qubits[1]) :
                     i \in 1..Len(measured)}

\* mapped_qubits True on a circuit whose qubit labels are not their positions,
\* with a two-qubit gate and a measurement.
C19_Witness ==
    /\ Called /\ fwd.status = "ok"
    /\ call.mapped_qubits
    /\ ~DenseQubits(tkcirc)
    /\ \E i \in 1..Len(tkcirc.cmds) : tkcirc.cmds[i].op = "CX"
    /\ \E i \in 1..Len(tkcirc.cmds) : tkcirc.cmds[i].op = "Measure"
    /\ DOMAIN Value(fwd.value).measures # {}

\* The same circuit with mapped_qubits False.
C19_WitnessPosition ==
    /\ Called /\ fwd.status = "ok"
    /\ ~call.mapped_qubits
    /\ ~DenseQubits(tkcirc)
    /\ \E i \in 1..Len(tkcirc.cmds) : tkcirc.cmds[i].op = "CX"
    /\ \E i \in 1..Len(tkcirc.cmds) : tkcirc.cmds[i].op = "Measure"

\* C20: with forced_qubits = F and force_ops_on_target_qubits True, the
\* instructions refer to every index of F and to every index of the target
\* qubit list, touched by an operation or not, and the padding I instructions
\* come before every translated instruction.
C20_Padding ==
    (Called /\ fwd.status = "ok"
       /\ call.forced_qubits # None /\ call.force_ops_on_target_qubits)
    => LET v == Value(fwd.value)
           instrs == v.bkcirc.instructions
           F == call.forced_qubits
           n == Len(v.target_qubits) + Len(F)
       IN  /\ \A i \in 1..Len(F) : F[i] \in Referenced(v.bkcirc)
           /\ \A i \in 1..Len(v.target_qubits) :
                 v.target_qubits[i] \in Referenced(v.bkcirc)
           /\ Len(instrs) >= n
           /\ \A i \in 1..n : NamedI(instrs[i])
           /\ {instrs[i].target[1] : i \in 1..n}
                 = {F[i] : i \in 1..Len(F)}
                     \cup {v.target_qubits[i] : i \in 1..Len(v.target_qubits)}
           /\ \A i \in (n + 1)..Len(instrs) : ~NamedI(instrs[i])

\* The only operation touches the last qubit, and F holds an index that is no
\* target qubit: the instructions still refer to all of them.
C20_Witness ==
    /\ Called /\ fwd.status = "ok"
    /\ call.forced_qubits # None /\ call.force_ops_on_target_qubits
    /\ Len(tkcirc.cmds) = 1
    /\ tkcirc.cmds[1].op = "H"
    /\ \E i \in 1..Len(call.forced_qubits) :
          \A j \in 1..Len(Value(fwd.value).target_qubits) :
             call.forced_qubits[i] # Value(fwd.value).target_qubits[j]
    /\ Len(Value(fwd.value).bkcirc.instructions)
          = NQubits + Len(call.forced_qubits) + 1

-----------------------------------------------------------------------------
(* Frame, window and reverse coverage of the translators.                   *)

C21_WitnessRaised ==
    /\ Called /\ pc = "converted" /\ fwd.status = "NotImplementedError"
    /\ tkcirc.wire_swaps # << >>

\* C25: every angle emitted for a gate kind of bounded input (Rx, Rz, ZZPhase,
\* GPI, GPI2, PhasedX, AAMS) lies strictly between -2 pi and 2 pi.
C25_OpenWindow ==
    (Called /\ fwd.status = "ok" /\ NoPadding)
    => \A i \in 1..Len(Emitting(tkcirc)) :
          Emitting(tkcirc)[i].op \in BoundedKinds
          => \A j \in 1..Len(Emitted(i).angles) :
                /\ Emitted(i).angles[j] > 0 - TimesPi(2 * HalfTurn)
                /\ Emitted(i).angles[j] < TimesPi(2 * HalfTurn)

\* C29: braket_to_tk succeeds on every instruction list tk_to_braket returns.
C29_ReverseAcceptsForward ==
    (RoundTripped /\ fwd.status = "ok") => rev.status = "ok"

-----------------------------------------------------------------------------
(* The translators called from several threads.  A call is a sequence of    *)
(* steps: its statements before the loop, one pass of the loop per command  *)
(* or instruction, and its return; the steps of different calls interleave. *)
(* The circuits the calls are given are tkcirc and bkcirc, shared by all of *)
(* them.  Whatever a call constructs (tkcirc1, bkcirc, target_qubits and    *)
(* measures in tk_to_braket, tkcirc in braket_to_tk) is an object of the    *)
(* heap; the call's frame holds them together.                              *)

NThreads == 2
Threads == 1..NThreads

\* The frame a call has before its first statement.
NoFrame ==
    [tkcirc1 |-> Circuit(<< >>, 0),
     target_qubits |-> << >>,
     st |-> [raised |-> FALSE, instructions |-> << >>, measures |-> << >>],
     rst |-> [raised |-> FALSE, tkcirc |-> Circuit(<< >>, 0)]]

\* lines 59, 62, 63, 67 and 178: the names of a call are bound to objects the
\* call constructs itself, tkcirc.copy(), BK_Circuit(), [], {} and Circuit().
new_frame_shared(t) == 1
new_frame(t) == t

\* The circuits the threads are given: up to MaxCmds of these commands, with
\* or without an implicit wire swap; Rx3 has no branch in tk_to_braket.
ThreadCmds ==
    {Cmd("H", << >>, <<LastQubit>>, << >>),
     Cmd("Measure", << >>, <<0>>, <<LastBit>>),
     Cmd("Rx3", << >>, <<0>>, << >>)}
ThreadCircuits ==
    {[Circuit(BkQubits, NBits) EXCEPT !.cmds = cmds, !.wire_swaps = ws] :
        cmds \in UNION {[1..n -> ThreadCmds] : n \in 1..MaxCmds},
        ws \in {<< >>, <<<<0, 1>>>>}}
\* The braket circuits the threads are given; CCPrx has no branch in
\* braket_to_tk.
ThreadBkCircuits ==
    {[instructions |-> <<Instr("V", <<0>>, << >>), Instr("H", <<1>>, << >>)>>],
     [instructions |-> <<Instr("I", <<1>>, << >>),
                         Instr("CCPrx", <<0>>, << >>)>>]}
ThreadCalls ==
    {DefaultCall,
     [mapped_qubits |-> TRUE, forced_qubits |-> <<NQubits>>,
      force_ops_on_target_qubits |-> TRUE]}

InitThreads ==
    /\ pc = "threads"
    /\ angle = None /\ norm = None
    /\ tkcirc \in ThreadCircuits
    /\ bkcirc \in ThreadBkCircuits
    /\ call = None /\ fwd = None /\ rev = None
    /\ thread = [t \in Threads |->
                    [pc |-> "idle", kind |-> None, args |-> None, i |-> 0,
                     result |-> None]]
    /\ heap = [f \in Threads |-> NoFrame]
    /\ backend = None /\ device = None /\ client = None

threadFrame == <<pc, normVars, convVars, backendVars>>

\* braket_convert.py lines 59-72: the statements of tk_to_braket before its
\* loop.
StartTkToBraket(t, args) ==
    /\ thread[t].pc = "idle"
    /\ LET tkcirc1 == working_copy(tkcirc)
           target_qubits == target_qubits_of(tkcirc1, args.mapped_qubits)
       IN  heap' = [heap EXCEPT
                      ![new_frame(t)].tkcirc1 = tkcirc1,
                      ![new_frame(t)].target_qubits = target_qubits,
                      ![new_frame(t)].st =
                          [raised |-> FALSE,
                           instructions |->
                               padding(target_qubits, args.forced_qubits,
                                       args.force_ops_on_target_qubits),
                           measures |-> << >>]]
    /\ thread' = [thread EXCEPT ![t] =
                     [pc |-> "loop", kind |-> "tk_to_braket", args |-> args,
                      i |-> 1, result |-> None]]
    /\ UNCHANGED threadFrame

\* lines 74-166: one pass of the loop; the raise of line 166 ends the call.
StepTkToBraket(t) ==
    /\ thread[t].pc = "loop" /\ thread[t].kind = "tk_to_braket"
    /\ LET f == heap[new_frame(t)]
           i == thread[t].i
       IN  /\ i <= Len(f.tkcirc1.cmds)
           /\ LET st == loop_body(f.st, f.tkcirc1,
                                  thread[t].args.mapped_qubits,
                                  f.tkcirc1.cmds[i])
              IN  /\ heap' = [heap EXCEPT ![new_frame(t)].st = st]
                  /\ thread' = [thread EXCEPT ![t] =
                        IF st.raised
                        THEN [@ EXCEPT !.pc = "done",
                                       !.result = deliver(st, f.target_qubits)]
                        ELSE [@ EXCEPT !.i = i + 1]]
    /\ UNCHANGED threadFrame

\* line 167
ReturnTkToBraket(t) ==
    /\ thread[t].pc = "loop" /\ thread[t].kind = "tk_to_braket"
    /\ LET f == heap[new_frame(t)]
       IN  /\ thread[t].i > Len(f.tkcirc1.cmds)
           /\ thread' = [thread EXCEPT
                           ![t].pc = "done",
                           ![t].result = deliver(f.st, f.target_qubits)]
    /\ UNCHANGED <<heap, threadFrame>>

\* lines 178-180: the statements of braket_to_tk before its loop.
StartBraketToTk(t) ==
    /\ thread[t].pc = "idle"
    /\ heap' = [heap EXCEPT ![new_frame(t)].rst =
                   [raised |-> FALSE,
                    tkcirc |-> [qubits |-> SortedSeq(bk_qubits(bkcirc)),
                                bits |-> << >>, cmds |-> << >>,
                                wire_swaps |-> << >>, phase |-> 0]]]
    /\ thread' = [thread EXCEPT ![t] =
                     [pc |-> "loop", kind |-> "braket_to_tk", args |-> None,
                      i |-> 1, result |-> None]]
    /\ UNCHANGED threadFrame

\* lines 181-256: one pass of the loop; the raise of line 256 ends the call.
StepBraketToTk(t) ==
    /\ thread[t].pc = "loop" /\ thread[t].kind = "braket_to_tk"
    /\ LET f == heap[new_frame(t)]
           i == thread[t].i
       IN  /\ i <= Len(bkcirc.instructions)
           /\ LET rst == rev_loop_body(f.rst, bkcirc.instructions[i])
              IN  /\ heap' = [heap EXCEPT ![new_frame(t)].rst = rst]
                  /\ thread' = [thread EXCEPT ![t] =
                        IF rst.raised
                        THEN [@ EXCEPT !.pc = "done",
                                       !.result = rev_deliver(rst)]
                        ELSE [@ EXCEPT !.i = i + 1]]
    /\ UNCHANGED threadFrame

\* line 257
ReturnBraketToTk(t) ==
    /\ thread[t].pc = "loop" /\ thread[t].kind = "braket_to_tk"
    /\ thread[t].i > Len(bkcirc.instructions)
    /\ thread' = [thread EXCEPT
                    ![t].pc = "done",
                    ![t].result = rev_deliver(heap[new_frame(t)].rst)]
    /\ UNCHANGED <<heap, threadFrame>>

NextThreads ==
    \E t \in Threads :
        \/ \E args \in ThreadCalls : StartTkToBraket(t, args)
        \/ StepTkToBraket(t)
        \/ ReturnTkToBraket(t)
        \/ StartBraketToTk(t)
        \/ StepBraketToTk(t)
        \/ ReturnBraketToTk(t)

SpecThreads == InitThreads /\ [][NextThreads]_vars

\* What the call of thread t delivers when no other call runs.
Alone(t) ==
    IF thread[t].kind = "tk_to_braket"
    THEN tk_to_braket(tkcirc, thread[t].args.mapped_qubits,
                      thread[t].args.forced_qubits,
                      thread[t].args.force_ops_on_target_qubits)
    ELSE braket_to_tk(bkcirc)

\* C22: however the steps of the calls interleave, on the same circuit or not,
\* each call delivers what it delivers when it runs alone.
C22_NoInterference ==
    \A t \in Threads :
        thread # None /\ thread[t].pc = "done" => thread[t].result = Alone(t)

\* All the threads called tk_to_braket on the same circuit, and all the calls
\* have returned an instruction list that is not empty.
C22_Witness ==
    /\ thread # None
    /\ \A t \in Threads :
          /\ thread[t].pc = "done" /\ thread[t].kind = "tk_to_braket"
          /\ thread[t].result.status = "ok"
          /\ Value(thread[t].result.value).bkcirc.instructions # << >>

-----------------------------------------------------------------------------
(* BraketBackend (backends/braket.py): its constructor, process_circuits,   *)
(* circuit_status and get_result, a braket device that runs the tasks, and  *)
(* a client that calls the backend.  A dict with the one key "result" is a  *)
(* record [result |-> None] (no such key) or [result |-> <<r>>]; _cache is  *)
(* the sequence of its (handle, dict) items.  Postprocessing circuits and   *)
(* density matrices are left out (postprocess is False, and the devices do  *)
(* not offer DensityMatrix), so a handle is (task id, target_qubits,        *)
(* measures, want_state).                                                   *)

\* Shots accepted for the Sample result type (minShots, maxShots of the
\* device's properties), largest batch of circuits, and largest timeout of
\* get_result counted in waits.
MinShots == 2
MaxShots == 3
MaxBatch == 2
MaxTimeout == 2

\* The local name aws_device_type of __init__ before its first assignment.
Unbound == "unbound"

\* lines 335-376 of __init__.  props are the properties of the device that
\* the rest of __init__ copies: state (StateVector is a supported result
\* type) and noop ("i" is a supported operation).
__init__(local, aws_type, provider, verbatim, props) ==
    LET aws_device_type == IF local THEN Unbound ELSE aws_type
    IN  IF ~local /\ aws_type \notin {"SIMULATOR", "QPU"}
        THEN Raise("ValueError")
        ELSE IF verbatim /\ aws_device_type = Unbound
        THEN Raise("UnboundLocalError")
        ELSE IF verbatim /\ aws_device_type # "QPU"
        THEN Raise("ValueError")
        ELSE IF verbatim /\ provider = "ionq"
        THEN Raise("ValueError")
        ELSE Return([device_type |-> IF local THEN "LOCAL" ELSE aws_type,
                     verbatim |-> verbatim,
                     supports_state |-> props.state,
                     noop_in_gate_set |-> props.noop,
                     requires_all_qubits_measured |-> FALSE,
                     all_qubits |-> << >>,
                     sample_min_shots |-> MinShots,
                     sample_max_shots |-> MaxShots])

\* lines 789-804
_to_bkcirc(self, circuit) ==
    tk_to_braket(circuit,
                 self.device_type = "QPU",
                 IF self.requires_all_qubits_measured /\ self.noop_in_gate_set
                 THEN self.all_qubits ELSE None,
                 self.noop_in_gate_set)

\* json.dumps(list(measures.items())) of lines 886 and 895, and
\* dict(json.loads(measures)) of line 931.  The items are listed by qubit;
\* the dict's own order is that of the Measure commands, which makes no
\* difference while no two qubits are measured into one bit.
items(measures) ==
    LET qs == SortedSeq(DOMAIN measures)
    IN  [i \in 1..Len(qs) |-> <<qs[i], measures[qs[i]]>>]
dict(pairs) ==
    [q \in {pairs[i][1] : i \in 1..Len(pairs)} |->
        LET i == CHOOSE i \in 1..Len(pairs) :
                    /\ pairs[i][1] = q
                    /\ \A j \in (i + 1)..Len(pairs) : pairs[j][1] # q
        IN  pairs[i][2]]

BackendResult(shots, state) == [shots |-> shots, state |-> state]

\* lines 210-251.  A task's result holds measured_qubits and, for each of
\* them, a column of measurements; the column of qubit q is written q.
_get_result(task, target_qubits, measures, want_state) ==
    IF want_state
    THEN Return([result |-> <<BackendResult(<< >>, TRUE)>>])
    ELSE LET its == items(measures)
             n == Len(its)
             \* line 246: result.measured_qubits.index(q) raises ValueError
             missing == {i \in 1..n :
                            \A j \in 1..Len(task.measured_qubits) :
                               task.measured_qubits[j] # its[i][1]}
             \* line 246: qubit_index[b] = ... raises IndexError
             beyond == {i \in 1..n : its[i][2] >= n}
             failing == missing \cup beyond
             first == CHOOSE i \in failing : \A j \in failing : i <= j
             qubit_index ==
                 [k \in 1..n |->
                     IF \E i \in 1..n : its[i][2] = k - 1
                     THEN LET i == CHOOSE i \in 1..n :
                                      /\ its[i][2] = k - 1
                                      /\ \A j \in (i + 1)..n : its[j][2] # k - 1
                          IN  index(task.measured_qubits, its[i][1])
                     ELSE 0]
         IN  IF failing # {}
             THEN IF first \in missing THEN Raise("ValueError")
                  ELSE Raise("IndexError")
             ELSE Return([result |-> <<BackendResult(
                     [k \in 1..n |-> task.measured_qubits[qubit_index[k] + 1]],
                     FALSE)>>])

\* Backend.empty_result, for a circuit with no instruction and no bit.
empty_result(circ) == BackendResult(<< >>, FALSE)

\* _cache as a dict: handle in self._cache, self._cache[handle], and
\* self._cache[handle] = results.
in_cache(cache, handle) == \E i \in 1..Len(cache) : cache[i].handle = handle
cache_get(cache, handle) ==
    cache[CHOOSE i \in 1..Len(cache) : cache[i].handle = handle].results
cache_set(cache, handle, results) ==
    IF in_cache(cache, handle)
    THEN [i \in 1..Len(cache) |->
             IF cache[i].handle = handle
             THEN [handle |-> handle, results |-> results] ELSE cache[i]]
    ELSE Append(cache, [handle |-> handle, results |-> results])
\* dict.update
update(results, result_dict) ==
    IF result_dict.result # None THEN result_dict ELSE results

\* lines 904-910
_update_cache_result_new_only(cache, handle, result_dict) ==
    IF in_cache(cache, handle) THEN cache
    ELSE cache_set(cache, handle, result_dict)
_update_cache_result(cache, handle, result_dict) ==
    IF in_cache(cache, handle)
    THEN cache_set(cache, handle, update(cache_get(cache, handle), result_dict))
    ELSE cache_set(cache, handle, result_dict)

\* device.run of _run, lines 774-787: the device takes the task; a local
\* simulator has completed it when run returns.  The task's id is its place
\* among the device's tasks.
run(dev, self, bkc, n_shots) ==
    Append(dev, [state |-> IF self.device_type = "LOCAL"
                           THEN "COMPLETED" ELSE "QUEUED",
                 measured_qubits |-> SortedSeq(bk_qubits(bkc)),
                 shots |-> n_shots])

\* lines 829-835: some n > 0 lies outside the shots the device samples.
shots_rejected_first(self, n_shots_list) ==
    /\ n_shots_list # << >>
    /\ n_shots_list[1] > 0
    /\ (n_shots_list[1] < self.sample_min_shots
          \/ n_shots_list[1] > self.sample_max_shots)
shots_rejected(self, n_shots_list) ==
    \E i \in 1..Len(n_shots_list) :
        /\ n_shots_list[i] > 0
        /\ (n_shots_list[i] < self.sample_min_shots
              \/ n_shots_list[i] > self.sample_max_shots)

\* lines 850-901: one pass of the loop of process_circuits.  The loop's state
\* is [status, handles, device, cache]; an exception ends the loop.
process_circuit(st, self, circ, n_shots) ==
    LET want_state == (n_shots = 0) /\ self.supports_state
        bk == _to_bkcirc(self, circ)
        v == Value(bk.value)
        no_task == v.bkcirc.instructions = << >> /\ Len(circ.bits) = 0
        dev == IF no_task THEN st.device
               ELSE run(st.device, self, v.bkcirc, n_shots)
        task_id == Len(dev)
        results ==
            IF self.device_type = "LOCAL"
            THEN IF ~no_task
                 THEN _get_result(dev[task_id], v.target_qubits, v.measures,
                                  want_state)
                 ELSE Return([result |-> <<empty_result(circ)>>])
            ELSE Return([result |-> None])
        handle ==
            IF ~no_task
            THEN [task_id |-> task_id, target_qubits |-> v.target_qubits,
                  measures |-> items(v.measures), want_state |-> want_state]
            \* str(uuid4()): an id that is no task's id and no other handle's
            ELSE [task_id |-> 0 - (Len(st.cache) + 1),
                  target_qubits |-> v.target_qubits,
                  measures |-> items(v.measures), want_state |-> FALSE]
    IN  IF st.status # "ok" THEN st
        ELSE IF bk.status # "ok" THEN [st EXCEPT !.status = bk.status]
        ELSE IF results.status # "ok"
        THEN [st EXCEPT !.status = results.status, !.device = dev]
        ELSE [status |-> "ok",
              handles |-> Append(st.handles, handle),
              device |-> dev,
              cache |-> cache_set(st.cache, handle, Value(results.value))]

RECURSIVE process_loop(_, _, _, _)
process_loop(st, self, circuits, n_shots_list) ==
    IF circuits = << >> THEN st
    ELSE process_loop(process_circuit(st, self, Head(circuits),
                                      Head(n_shots_list)),
                      self, Tail(circuits), Tail(n_shots_list))

\* lines 806-902.  What the call delivers is [status, handles]; device and
\* cache are the device's tasks and self._cache when the call ends.
process_circuits(self, dev, cache, circuits, n_shots_list) ==
    IF shots_rejected(self, n_shots_list)
    THEN [status |-> "ValueError", handles |-> << >>,
          device |-> dev, cache |-> cache]
    ELSE LET st == process_loop([status |-> "ok", handles |-> << >>,
                                 device |-> dev, cache |-> cache],
                                self, circuits, n_shots_list)
         IN  IF st.status = "ok" THEN st ELSE [st EXCEPT !.handles = << >>]

\* lines 912-942.  What the call delivers is [status, value]; cache is
\* self._cache when the call ends.
circuit_status(self, dev, cache, handle) ==
    LET state == dev[handle.task_id].state
        got == _get_result(dev[handle.task_id], handle.target_qubits,
                           dict(handle.measures), handle.want_state)
        same(s) == [status |-> "ok", value |-> <<s>>, cache |-> cache]
    IN  IF self.device_type = "LOCAL" THEN same("COMPLETED")
        ELSE IF state = "FAILED" THEN same("ERROR")
        ELSE IF state \in {"CANCELLED", "CANCELLING"} THEN same("CANCELLED")
        ELSE IF state = "COMPLETED"
        THEN IF got.status # "ok"
             THEN [status |-> got.status, value |-> None, cache |-> cache]
             ELSE [status |-> "ok", value |-> <<"COMPLETED">>,
                   cache |-> _update_cache_result(cache, handle,
                                                  Value(got.value))]
        ELSE IF state \in {"QUEUED", "CREATED"} THEN same("QUEUED")
        ELSE IF state = "RUNNING" THEN same("RUNNING")
        ELSE same("ERROR")

\* Backend.get_result of pytket, called at line 1034: the cached result, or
\* CircuitNotRunError.
has_result(cache, handle) ==
    in_cache(cache, handle) /\ cache_get(cache, handle).result # None

\* lines 1042-1046: what the loop of get_result does with a status.
poll_error_ignored(status) ==
    IF status = "COMPLETED" THEN "return" ELSE "sleep"
poll(status) ==
    IF status = "COMPLETED" THEN "return"
    ELSE IF status = "ERROR" THEN "raise"
    ELSE "sleep"

\* The circuits the client submits, all valid for the backend: an H on every
\* measured qubit, then the measurements of the map pairs, (qubit, bit) with
\* no bit twice.  With no pair there is one H and no bit.
JobCircuit(pairs) ==
    [Circuit(BkQubits, IF pairs = << >> THEN 0 ELSE NBits) EXCEPT
       !.cmds = IF pairs = << >> THEN <<Cmd("H", << >>, <<0>>, << >>)>>
                ELSE [i \in 1..Len(pairs) |->
                         Cmd("H", << >>, <<pairs[i][1]>>, << >>)]
                     \o [i \in 1..Len(pairs) |->
                            Cmd("Measure", << >>, <<pairs[i][1]>>,
                                <<pairs[i][2]>>)]]
EmptyCircuit == Circuit(BkQubits, 0)
Job(circ, n_shots) == [circ |-> circ, n_shots |-> n_shots]
\* A job with nothing special about it, and the others: measurements into
\* the first bits in another order, into the last bit only, a state vector, no
\* instruction at all, too many shots, too few.
PlainJob == Job(JobCircuit(<<<<0, 0>>>>), MaxShots)
Jobs ==
    {PlainJob,
     Job(JobCircuit(<<<<0, 1>>, <<LastQubit, 0>>>>), MinShots),
     Job(JobCircuit(<<<<0, LastBit>>>>), MaxShots),
     Job(JobCircuit(<< >>), 0),
     Job(EmptyCircuit, MaxShots),
     Job(JobCircuit(<<<<0, 0>>>>), MaxShots + 1),
     Job(JobCircuit(<<<<0, 0>>>>), MinShots - 1)}
\* A batch holds any number of plain jobs and at most one other.
Batches ==
    UNION {{[i \in 1..n |-> IF i = k THEN job ELSE PlainJob] :
               k \in 1..n, job \in Jobs} : n \in 1..MaxBatch}
\* The jobs a backend can be given: no shots only if it offers StateVector;
\* a circuit with no instruction and no bit, for which no task is run, only
\* if it is local.
Fits(self, job) ==
    /\ job.n_shots = 0 => self.supports_state
    /\ job.circ = EmptyCircuit => self.device_type = "LOCAL"

\* The devices of the model and what their properties say: the local
\* simulator, a managed simulator and a QPU.
DeviceProperties(local, aws_type) ==
    IF local THEN [state |-> TRUE, noop |-> TRUE]
    ELSE IF aws_type = "SIMULATOR" THEN [state |-> TRUE, noop |-> FALSE]
    ELSE [state |-> FALSE, noop |-> TRUE]
\* timeout=None, timeout=0 and a timeout of MaxTimeout waits.
Timeouts ==
    {[timed |-> FALSE, timeout |-> 0], [timed |-> TRUE, timeout |-> 0],
     [timed |-> TRUE, timeout |-> MaxTimeout]}

NoHandle ==
    [task_id |-> 0, target_qubits |-> << >>, measures |-> << >>,
     want_state |-> FALSE]
\* A call of the client: circuit_status or get_result on a handle.  seen is
\* what circuit_status last delivered, inside get_result or not: a status, or
\* the exception it raised.
NoCall ==
    [op |-> "", phase |-> "idle", handle |-> NoHandle, timed |-> FALSE,
     timeout |-> 0, clock |-> 0, seen |-> "", status |-> "", result |-> None]

InitBackend ==
    /\ pc = "backend"
    /\ angle = None /\ norm = None
    /\ tkcirc = None /\ bkcirc = None
    /\ call = None /\ fwd = None /\ rev = None
    /\ thread = None /\ heap = None
    /\ backend = [made |-> None, local |-> FALSE, verbatim |-> FALSE,
                  cache |-> << >>]
    /\ device = << >>
    /\ client = [handles |-> << >>,
                 batch |-> [n_shots |-> << >>, status |-> ""],
                 call |-> NoCall]

backendFrame == <<pc, normVars, convVars, threadVars>>
self == Value(backend.made.value)
Made == backend.made # None /\ backend.made.status = "ok"
Calling == client.call.phase = "polling"

\* b = BraketBackend(local=..., device_type=..., provider=..., verbatim=...)
Construct(local, aws_type, provider, verbatim) ==
    /\ backend.made = None
    /\ backend' = [made |-> __init__(local, aws_type, provider, verbatim,
                                     DeviceProperties(local, aws_type)),
                   local |-> local, verbatim |-> verbatim,
                   cache |-> << >>]
    /\ UNCHANGED <<device, client, backendFrame>>

\* The handle of a plain job.
PlainHandle(handle) ==
    handle.measures = <<<<0, 0>>>> /\ ~handle.want_state

\* handles = b.process_circuits(circuits, n_shots): the client's batches, of
\* MaxBatch jobs in all, up to the first batch that raises anything but the
\* ValueError for its shots.  As within a batch, the jobs the backend has
\* taken are plain but for one at most.  The client keeps the handles of
\* every batch.
ProcessCircuits(batch) ==
    /\ Made /\ ~Calling
    /\ client.batch.status \in {"", "ok", "ValueError"}
    /\ Len(backend.cache) + Len(batch) <= MaxBatch
    /\ \/ \A i \in 1..Len(batch) : batch[i] = PlainJob
       \/ \A i \in 1..Len(client.handles) : PlainHandle(client.handles[i])
    /\ \A i \in 1..Len(batch) : Fits(self, batch[i])
    /\ LET n_shots_list == [i \in 1..Len(batch) |-> batch[i].n_shots]
           got == process_circuits(self, device, backend.cache,
                                   [i \in 1..Len(batch) |-> batch[i].circ],
                                   n_shots_list)
       IN  /\ device' = got.device
           /\ backend' = [backend EXCEPT !.cache = got.cache]
           /\ client' = [client EXCEPT
                           !.handles = @ \o got.handles,
                           !.batch = [n_shots |-> n_shots_list,
                                      status |-> got.status]]
    /\ UNCHANGED backendFrame

\* b.circuit_status(handle)
CircuitStatus(handle) ==
    /\ Made /\ ~Calling
    /\ LET got == circuit_status(self, device, backend.cache, handle)
       IN  /\ backend' = [backend EXCEPT !.cache = got.cache]
           /\ client' = [client EXCEPT !.call =
                 [NoCall EXCEPT
                    !.op = "circuit_status", !.phase = "done",
                    !.handle = handle, !.status = got.status,
                    !.seen = IF got.status = "ok" THEN Value(got.value)
                             ELSE got.status]]
    /\ UNCHANGED <<device, backendFrame>>

\* b.get_result(handle, timeout=...), lines 1033-1039: the cached result, or
\* the start of the loop.
GetResult(handle, t) ==
    /\ Made /\ ~Calling
    /\ client' = [client EXCEPT !.call =
          IF has_result(backend.cache, handle)
          THEN [NoCall EXCEPT
                  !.op = "get_result", !.phase = "done", !.handle = handle,
                  !.status = "ok",
                  !.result = cache_get(backend.cache, handle).result]
          ELSE [NoCall EXCEPT
                  !.op = "get_result", !.phase = "polling",
                  !.handle = handle,
                  !.timed = t.timed, !.timeout = t.timeout]]
    /\ UNCHANGED <<backend, device, backendFrame>>

\* What get_result hands to its caller when it ends.
Ending(handle, seen, status, result) ==
    [NoCall EXCEPT
       !.op = "get_result", !.phase = "done", !.handle = handle,
       !.seen = seen, !.status = status, !.result = result]

\* lines 1040-1046: one pass of the loop.  time.sleep(wait) moves the clock
\* on by one wait; with no timeout the clock is kept modulo 2.
GetResultPoll ==
    /\ Calling
    /\ ~client.call.timed \/ client.call.clock < client.call.timeout
    /\ LET handle == client.call.handle
           got == circuit_status(self, device, backend.cache, handle)
           seen == IF got.status = "ok" THEN Value(got.value) ELSE got.status
       IN  /\ backend' = [backend EXCEPT !.cache = got.cache]
           /\ client' = [client EXCEPT !.call =
                 IF got.status # "ok"
                 THEN Ending(handle, seen, got.status, None)
                 ELSE IF poll(seen) = "return"
                 THEN Ending(handle, seen, "ok",
                             cache_get(got.cache, handle).result)
                 ELSE IF poll(seen) = "raise"
                 THEN Ending(handle, seen, "RuntimeError", None)
                 ELSE [@ EXCEPT !.seen = seen,
                                !.clock = IF client.call.timed THEN @ + 1
                                          ELSE 1 - @]]
    /\ UNCHANGED <<device, backendFrame>>

\* lines 1047-1049: the loop ends with the timeout.
GetResultTimeout ==
    /\ Calling
    /\ client.call.timed /\ client.call.clock >= client.call.timeout
    /\ client' = [client EXCEPT !.call =
                     Ending(@.handle, @.seen, "Timed out", None)]
    /\ UNCHANGED <<backend, device, backendFrame>>

\* The device works on its tasks one at a time, in the order it was given
\* them: the first task that has not ended starts, completes or fails, or is
\* cancelled.
Ended(task) == task.state \in {"COMPLETED", "FAILED", "CANCELLED"}
TaskAdvance(state) ==
    /\ \E id \in 1..Len(device) :
          /\ ~Ended(device[id])
          /\ \A j \in 1..(id - 1) : Ended(device[j])
          /\ \/ /\ device[id].state = "QUEUED"
                /\ state \in {"RUNNING", "CANCELLED"}
             \/ /\ device[id].state = "RUNNING"
                /\ state \in {"COMPLETED", "FAILED", "CANCELLED"}
          /\ device' = [device EXCEPT ![id].state = state]
    /\ UNCHANGED <<backend, client, backendFrame>>

Handles == {client.handles[i] : i \in 1..Len(client.handles)}

NextBackend ==
    \/ \E local \in BOOLEAN, aws_type \in {"SIMULATOR", "QPU"},
          provider \in {"amazon", "ionq"}, verbatim \in BOOLEAN :
          Construct(local, aws_type, provider, verbatim)
    \/ \E batch \in Batches : ProcessCircuits(batch)
    \/ \E handle \in Handles : CircuitStatus(handle)
    \/ \E handle \in Handles, t \in Timeouts : GetResult(handle, t)
    \/ GetResultPoll
    \/ GetResultTimeout
    \/ \E state \in {"RUNNING", "COMPLETED", "FAILED", "CANCELLED"} :
          TaskAdvance(state)

SpecBackend == InitBackend /\ [][NextBackend]_vars

\* get_result runs on: its thread is scheduled again and again.
SpecBackendFair ==
    SpecBackend /\ WF_vars(GetResultPoll) /\ WF_vars(GetResultTimeout)

-----------------------------------------------------------------------------
(* Properties of the backend.                                               *)

Constructed == backend # None /\ backend.made # None

\* C23: with local=True the constructor ignores its other parameters:
\* whatever device_type, provider and verbatim are, it raises nothing and
\* the backend it makes is a local simulator.
C23_LocalIgnoresOthers ==
    (Constructed /\ backend.local)
    => /\ backend.made.status = "ok"
       /\ Value(backend.made.value).device_type = "LOCAL"

\* get_result has polled: circuit_status was called from its loop.
Polled == client.call.op = "get_result" /\ client.call.seen # ""
GetEnded(status) ==
    /\ client.call.op = "get_result" /\ client.call.phase = "done"
    /\ client.call.status = status
Expired ==
    /\ Calling
    /\ client.call.timed /\ client.call.clock >= client.call.timeout

\* What C24 says of the call at any moment.
C24_Now ==
    /\ (Polled /\ client.call.seen = "COMPLETED")
       => /\ GetEnded("ok")
          /\ client.call.result # None
          /\ client.call.result
                = cache_get(backend.cache, client.call.handle).result
    /\ (Polled /\ client.call.seen = "ERROR") => GetEnded("RuntimeError")
    /\ GetEnded("RuntimeError") => client.call.seen = "ERROR"
    /\ (Polled /\ GetEnded("ok")) => client.call.seen = "COMPLETED"
    /\ GetEnded("Timed out") => client.call.seen \notin {"COMPLETED", "ERROR"}

\* C24: get_result on a handle with no cached result polls circuit_status: it
\* returns the cached result at the first poll that reports COMPLETED, raises
\* RuntimeError at the first poll that reports ERROR, raises the timed-out
\* RuntimeError when the timeout has expired with neither, and at no other
\* moment; it returns no result without a poll that reported COMPLETED.
C24_Polling ==
    [][/\ backend' # None => C24_Now'
       /\ (backend # None /\ Expired /\ client' # client)
          => (client'.call.phase = "done"
                /\ client'.call.status = "Timed out")
       /\ (backend # None /\ backend' # None /\ ~GetEnded("Timed out")
             /\ client'.call.op = "get_result"
             /\ client'.call.phase = "done"
             /\ client'.call.status = "Timed out")
          => Expired]_vars

\* get_result has returned the result of a remote task at a poll that
\* reported COMPLETED.
C24_Witness ==
    /\ Constructed /\ Made /\ self.device_type # "LOCAL"
    /\ Polled /\ GetEnded("ok") /\ client.call.seen = "COMPLETED"
    /\ client.call.result # None

\* get_result has raised at a poll that reported ERROR; it has timed out
\* after a poll that reported RUNNING; it has timed out with no poll.
C24_WitnessError ==
    Constructed /\ Made /\ Polled /\ GetEnded("RuntimeError")
C24_WitnessTimedOut ==
    /\ Constructed /\ Made
    /\ GetEnded("Timed out") /\ client.call.seen = "RUNNING"
C24_WitnessNoPoll ==
    Constructed /\ Made /\ GetEnded("Timed out") /\ client.call.seen = ""

\* The rank of bit b among the bits of a measurement map, from 1.
BitRank(pairs, b) ==
    Cardinality({i \in 1..Len(pairs) : pairs[i][2] <= b})
\* Shots in canonical bit order: one column per measured bit, the column of
\* bit b holding the outcomes of the qubit measured into b.
Canonical(shots, pairs) ==
    /\ Len(shots) = Len(pairs)
    /\ \A i \in 1..Len(pairs) :
          shots[BitRank(pairs, pairs[i][2])] = pairs[i][1]

\* C26: for every measurement map tk_to_braket can produce, the measured bits
\* being any of the circuit's bits, _get_result succeeds and returns the shots
\* in canonical bit order: process_circuits on a local backend and
\* circuit_status on a completed task raise nothing, and every cached result
\* with shots is canonical for its handle's map.
C26_DecodesEveryMap ==
    (Constructed /\ Made) =>
       /\ client.batch.status \in {"", "ok", "ValueError"}
       /\ client.call.seen # "IndexError"
       /\ \A i \in 1..Len(backend.cache) :
             LET h == backend.cache[i].handle
                 r == backend.cache[i].results.result
             IN  (r # None /\ ~h.want_state /\ h.task_id > 0)
                    => Canonical(r[1].shots, h.measures)

\* Some n > 0 of a shot list lies outside [sample_min_shots, sample_max_shots].
OutOfRange(n_shots_list) ==
    \E i \in 1..Len(n_shots_list) :
        /\ n_shots_list[i] > 0
        /\ \/ n_shots_list[i] < MinShots
           \/ n_shots_list[i] > MaxShots

\* C27: process_circuits validates the shot counts before it submits anything:
\* given a shot list with some n > 0 outside [sample_min_shots,
\* sample_max_shots] it raises ValueError, runs no task on the device for any
\* circuit of the batch, returns no handle and leaves the cache as it was.
C27_ShotsValidatedFirst ==
    [][(/\ backend # None /\ Made
        /\ client'.batch # client.batch
        /\ OutOfRange(client'.batch.n_shots))
       => /\ client'.batch.status = "ValueError"
          /\ device' = device
          /\ client'.handles = client.handles
          /\ backend'.cache = backend.cache]_vars

\* A batch whose first shot count is valid and another is not has been
\* rejected.
C27_Witness ==
    /\ Constructed /\ Made
    /\ client.batch.status = "ValueError"
    /\ Len(client.batch.n_shots) > 1
    /\ ~OutOfRange(<<client.batch.n_shots[1]>>)
    /\ OutOfRange(client.batch.n_shots)
\* The same with an earlier batch's task on the device and result in the
\* cache.
C27_WitnessLater ==
    /\ Constructed /\ Made
    /\ client.batch.status = "ValueError"
    /\ device # << >> /\ backend.cache # << >> /\ client.handles # << >>

\* The step is the start of a get_result call.
GetResultCalled ==
    /\ ~Calling
    /\ client'.call # client.call
    /\ client'.call.op = "get_result"

\* C28: whenever circuit_status returns COMPLETED for a handle of
\* process_circuits, the cache holds a result for the handle; the cache keeps
\* the result, and a get_result called from then on returns it without a
\* poll.
C28_CompletedIsCached ==
    [][(backend # None /\ Made) =>
         /\ client'.call.seen = "COMPLETED"
            => has_result(backend'.cache, client'.call.handle)
         /\ \A i \in 1..Len(client.handles) :
               has_result(backend.cache, client.handles[i])
                  => /\ has_result(backend'.cache, client.handles[i])
                     /\ cache_get(backend'.cache, client.handles[i])
                           = cache_get(backend.cache, client.handles[i])
         /\ (GetResultCalled
               /\ has_result(backend.cache, client'.call.handle))
            => /\ client'.call.phase = "done"
               /\ client'.call.status = "ok"
               /\ client'.call.seen = ""
               /\ client'.call.result
                     = cache_get(backend.cache, client'.call.handle).result]_vars

\* circuit_status has returned COMPLETED for a task of a remote device, and
\* the result is in the cache.
C28_Witness ==
    /\ Constructed /\ Made /\ self.device_type # "LOCAL"
    /\ client.call.op = "circuit_status"
    /\ client.call.seen = "COMPLETED"
    /\ has_result(backend.cache, client.call.handle)
\* get_result has returned the result of a remote task without a poll; the
\* same on a local backend.
C28_WitnessNoPoll ==
    /\ Constructed /\ Made /\ self.device_type # "LOCAL"
    /\ GetEnded("ok") /\ client.call.seen = ""
    /\ client.call.result # None
C28_WitnessLocal ==
    /\ Constructed /\ Made /\ self.device_type = "LOCAL"
    /\ GetEnded("ok") /\ client.call.seen = ""
    /\ client.call.result # None

\* The task of the handle get_result is polling for.
PolledTask == device[client.call.handle.task_id]

\* C30: get_result eventually returns or raises once the remote task has
\* ended (COMPLETED, FAILED or CANCELLED), whatever the timeout, None
\* included.
C30_GetResultTerminates ==
    (backend # None /\ Calling /\ Ended(PolledTask))
       ~> (client.call.phase = "done")

=============================================================================
